---- MODULE Spec2Model ----
(***************************************************************************)
(* Model of the configuration service of the Firebase + Next.js template:  *)
(* apps/web/src/config/firebase-config.ts and apps/web/src/config/types.ts *)
(*                                                                         *)
(* JavaScript values are modelled as tagged records (JUndef, JNull,        *)
(* JStr, JNum), JavaScript objects as TLA+ records of such values, a       *)
(* missing property as a field holding JUndef.  Strings are TLA+ strings,  *)
(* template literals are built with \o and ToString.  Console lines are    *)
(* kept without their emoji, and console.error without the error object.   *)
(***************************************************************************)
EXTENDS Integers, Sequences, FiniteSets, TLC

VARIABLES
    env,           \* process.env: the variables the service reads
    firebaseJson,  \* <cwd>/firebase.json: its state on disk and parsed content
    isNode,        \* the module-level constant isNode (Node.js or browser)
    instance,      \* ConfigService.instance: JNull or the committed object
    objects,       \* number of ConfigService objects allocated so far
    result,        \* outcome of the latest static call (returned / threw)
    console,       \* lines the latest static call wrote to the console
    discarded,     \* the object resetInstance() dropped last (JNull: none yet)
    changes,       \* number of changes made to env / firebase.json so far
    script,        \* the running script: its name, position, locals, output, exit code
    localhost,     \* localhost: what answers a GET on each port
    disk,          \* the files the scripts test, read, write and delete
    procs          \* the processes the scripts spawn and signal

vars == <<env, firebaseJson, isNode, instance, objects, result, console,
          discarded, changes, script, localhost, disk, procs>>

\* what ConfigService and its surroundings hold
configVars == <<env, firebaseJson, isNode, instance, objects, result, console,
                discarded, changes>>

\* what the scripts and their surroundings hold
scriptVars == <<script, localhost, disk, procs>>

-----------------------------------------------------------------------------
(* Bounds of the model *)

\* construction attempts (new ConfigService()) in one run
MaxObjects == 2
\* changes to the ambient signals (env variables, firebase.json) in one run
MaxChanges == 2

-----------------------------------------------------------------------------
(* JavaScript values *)

JUndef == [type |-> "undefined"]
JNull == [type |-> "null"]
JStr(s) == [type |-> "string", str |-> s]
JNum(n) == [type |-> "number", num |-> n]

\* the values JavaScript coerces to false
Falsy == {JUndef, JNull, JStr(""), JNum(0)}
Truthy(v) == v \notin Falsy

\* a || b
JsOr(a, b) == IF Truthy(a) THEN a ELSE b

\* ${v} inside a template literal
ToStr(v) ==
    IF v = JUndef THEN "undefined"
    ELSE IF v = JNull THEN "null"
    ELSE IF v.type = "string" THEN v.str
    ELSE ToString(v.num)

\* v cannot be dereferenced: v.key throws a TypeError
Nullish(v) == v \in {JUndef, JNull}

\* v.key where v is not nullish: a missing property reads as undefined
Get(v, key) == IF key \in DOMAIN v /\ key # "type" THEN v[key] ELSE JUndef

\* v?.key
OptGet(v, key) == IF Nullish(v) THEN JUndef ELSE Get(v, key)

\* join() called without its separator argument: the default "," is used
RECURSIVE JoinDefaultSeparator(_, _)
JoinDefaultSeparator(list, sep) ==
    IF Len(list) = 0 THEN ""
    ELSE IF Len(list) = 1 THEN list[1]
    ELSE list[1] \o "," \o JoinDefaultSeparator(Tail(list), sep)

\* Array.prototype.join
RECURSIVE Join(_, _)
Join(list, sep) ==
    IF Len(list) = 0 THEN ""
    ELSE IF Len(list) = 1 THEN list[1]
    ELSE list[1] \o sep \o Join(Tail(list), sep)

-----------------------------------------------------------------------------
(* types.ts *)

\* new ConfigurationError(message, details, resolution)
ConfigurationError(message, details, resolution) ==
    [name |-> "ConfigurationError", message |-> message,
     details |-> details, resolution |-> resolution]

\* a string[] value
JArr(items) == [type |-> "array", items |-> items]

-----------------------------------------------------------------------------
(* ConfigService: the instance methods, as functions of what they read.    *)
(* e is process.env, f is firebase.json, node is isNode, cfg is            *)
(* this.config (JUndef while the constructor has not assigned it yet).     *)

\* getEnvironment reading NODE_ENV before the override
getEnvironmentNodeEnvFirst(e) ==
    LET envName == JsOr(e.NODE_ENV, e.NEXT_PUBLIC_APP_ENV)
    IN  IF envName = JStr("production") THEN "production"
        ELSE IF envName = JStr("staging") THEN "staging"
        ELSE "development"

getEnvironment(e) ==
    LET envName == JsOr(e.NEXT_PUBLIC_APP_ENV, e.NODE_ENV)
    IN  IF envName = JStr("production") THEN "production"
        ELSE IF envName = JStr("staging") THEN "staging"
        ELSE "development"

\* the defaults with the ports of functions and hosting exchanged
getDefaultEmulatorConfigSwapped(cfg) ==
    LET host == "localhost"
        projectId == JsOr(OptGet(OptGet(cfg, "firebase"), "projectId"),
                          JStr("demo-project"))
    IN  [auth |-> [host |-> JStr(host), port |-> JNum(9099),
                   url |-> JStr("http://" \o host \o ":9099")],
         firestore |-> [host |-> JStr(host), port |-> JNum(8080)],
         functions |-> [host |-> JStr(host), port |-> JNum(5000),
                        baseUrl |-> JStr("http://" \o host \o ":5000/"
                                         \o ToStr(projectId) \o "/us-central1")],
         storage |-> [host |-> JStr(host), port |-> JNum(9199)],
         hosting |-> [host |-> JStr(host), port |-> JNum(5001)]]

getDefaultEmulatorConfig(cfg) ==
    LET host == "localhost"
        projectId == JsOr(OptGet(OptGet(cfg, "firebase"), "projectId"),
                          JStr("demo-project"))
    IN  [auth |-> [host |-> JStr(host), port |-> JNum(9099),
                   url |-> JStr("http://" \o host \o ":9099")],
         firestore |-> [host |-> JStr(host), port |-> JNum(8080)],
         functions |-> [host |-> JStr(host), port |-> JNum(5001),
                        baseUrl |-> JStr("http://" \o host \o ":5001/"
                                         \o ToStr(projectId) \o "/us-central1")],
         storage |-> [host |-> JStr(host), port |-> JNum(9199)],
         hosting |-> [host |-> JStr(host), port |-> JNum(5000)]]

\* the object literal with the storage line copied from the firestore line
\* and its key left unchanged
ParsedEmulatorConfigCopied(cfg, emulators) ==
    LET host == "localhost"
        projectId == JsOr(OptGet(OptGet(cfg, "firebase"), "projectId"),
                          JStr("demo-project"))
        port(svc) == OptGet(Get(emulators, svc), "port")
    IN  [auth |-> [host |-> JStr(host),
                   port |-> JsOr(port("auth"), JNum(9099)),
                   url |-> JStr("http://" \o host \o ":"
                                \o ToStr(JsOr(port("auth"), JNum(9099))))],
         firestore |-> [host |-> JStr(host),
                        port |-> JsOr(port("firestore"), JNum(8080))],
         functions |-> [host |-> JStr(host),
                        port |-> JsOr(port("functions"), JNum(5001)),
                        baseUrl |-> JStr("http://" \o host \o ":"
                                         \o ToStr(JsOr(port("functions"), JNum(5001)))
                                         \o "/" \o ToStr(projectId) \o "/us-central1")],
         storage |-> [host |-> JStr(host),
                      port |-> JsOr(port("firestore"), JNum(9199))],
         hosting |-> [host |-> JStr(host),
                      port |-> JsOr(port("hosting"), JNum(5000))]]

\* the object literal loadEmulatorConfig returns for a truthy emulators section
ParsedEmulatorConfig(cfg, emulators) ==
    LET host == "localhost"
        projectId == JsOr(OptGet(OptGet(cfg, "firebase"), "projectId"),
                          JStr("demo-project"))
        port(svc) == OptGet(Get(emulators, svc), "port")
    IN  [auth |-> [host |-> JStr(host),
                   port |-> JsOr(port("auth"), JNum(9099)),
                   url |-> JStr("http://" \o host \o ":"
                                \o ToStr(JsOr(port("auth"), JNum(9099))))],
         firestore |-> [host |-> JStr(host),
                        port |-> JsOr(port("firestore"), JNum(8080))],
         functions |-> [host |-> JStr(host),
                        port |-> JsOr(port("functions"), JNum(5001)),
                        baseUrl |-> JStr("http://" \o host \o ":"
                                         \o ToStr(JsOr(port("functions"), JNum(5001)))
                                         \o "/" \o ToStr(projectId) \o "/us-central1")],
         storage |-> [host |-> JStr(host),
                      port |-> JsOr(port("storage"), JNum(9199))],
         hosting |-> [host |-> JStr(host),
                      port |-> JsOr(port("hosting"), JNum(5000))]]

\* loadEmulatorConfig with a catch block that logs and returns nothing
loadEmulatorConfigCatchReturnsNothing(cfg, f, node) ==
    IF ~node
    THEN [value |-> getDefaultEmulatorConfig(cfg),
          log |-> <<"[ConfigService] Browser environment detected, using default emulator ports">>]
    ELSE IF f.state = "absent"
    THEN [value |-> getDefaultEmulatorConfig(cfg),
          log |-> <<"[ConfigService] firebase.json not found, using defaults">>]
    ELSE IF \/ f.state \in {"unreadable", "malformed"}
            \/ Nullish(f.json)
    THEN [value |-> JUndef,
          log |-> <<"[ConfigService] Error loading firebase.json:">>]
    ELSE IF ~Truthy(Get(f.json, "emulators"))
    THEN [value |-> getDefaultEmulatorConfig(cfg),
          log |-> <<"[ConfigService] No emulator config in firebase.json">>]
    ELSE [value |-> ParsedEmulatorConfig(cfg, Get(f.json, "emulators")),
          log |-> <<>>]

\* loadEmulatorConfig that returns nothing for a firebase.json without an
\* emulators section
loadEmulatorConfigNothingWithoutSection(cfg, f, node) ==
    IF ~node
    THEN [value |-> getDefaultEmulatorConfig(cfg),
          log |-> <<"[ConfigService] Browser environment detected, using default emulator ports">>]
    ELSE IF f.state = "absent"
    THEN [value |-> getDefaultEmulatorConfig(cfg),
          log |-> <<"[ConfigService] firebase.json not found, using defaults">>]
    ELSE IF \/ f.state \in {"unreadable", "malformed"}
            \/ Nullish(f.json)
    THEN [value |-> getDefaultEmulatorConfig(cfg),
          log |-> <<"[ConfigService] Error loading firebase.json:">>]
    ELSE IF ~Truthy(Get(f.json, "emulators"))
    THEN [value |-> JUndef,
          log |-> <<"[ConfigService] No emulator config in firebase.json">>]
    ELSE [value |-> ParsedEmulatorConfig(cfg, Get(f.json, "emulators")),
          log |-> <<>>]

\* returns [value, log]: the configuration and the console lines written
loadEmulatorConfig(cfg, f, node) ==
    IF ~node
    THEN [value |-> getDefaultEmulatorConfig(cfg),
          log |-> <<"[ConfigService] Browser environment detected, using default emulator ports">>]
    ELSE IF f.state = "absent"
    THEN [value |-> getDefaultEmulatorConfig(cfg),
          log |-> <<"[ConfigService] firebase.json not found, using defaults">>]
    ELSE IF \/ f.state \in {"unreadable", "malformed"}   \* readFileSync / JSON.parse throws
            \/ Nullish(f.json)                           \* firebaseJson.emulators throws
    THEN [value |-> getDefaultEmulatorConfig(cfg),
          log |-> <<"[ConfigService] Error loading firebase.json:">>]
    ELSE IF ~Truthy(Get(f.json, "emulators"))
    THEN [value |-> getDefaultEmulatorConfig(cfg),
          log |-> <<"[ConfigService] No emulator config in firebase.json">>]
    ELSE [value |-> ParsedEmulatorConfig(cfg, Get(f.json, "emulators")),
          log |-> <<>>]

\* loadFirebaseConfig loading the emulator configuration in every environment
loadFirebaseConfigAlwaysEmulators(e, cfg, f, node) ==
    LET config ==
            [projectId |-> JsOr(JsOr(e.NEXT_PUBLIC_FIREBASE_PROJECT_ID,
                                     e.FIREBASE_PROJECT_ID),
                                JStr("demo-project")),
             apiKey |-> e.NEXT_PUBLIC_FIREBASE_API_KEY,
             authDomain |-> e.NEXT_PUBLIC_FIREBASE_AUTH_DOMAIN,
             storageBucket |-> e.NEXT_PUBLIC_FIREBASE_STORAGE_BUCKET,
             messagingSenderId |-> e.NEXT_PUBLIC_FIREBASE_MESSAGING_SENDER_ID,
             appId |-> e.NEXT_PUBLIC_FIREBASE_APP_ID,
             emulators |-> JUndef]
        emu == loadEmulatorConfig(cfg, f, node)
    IN  [value |-> [config EXCEPT !.emulators = emu.value], log |-> emu.log]

\* loadFirebaseConfig without the placeholder at the end of the || chain
loadFirebaseConfigNoPlaceholder(e, cfg, f, node) ==
    LET config ==
            [projectId |-> JsOr(e.NEXT_PUBLIC_FIREBASE_PROJECT_ID,
                                e.FIREBASE_PROJECT_ID),
             apiKey |-> e.NEXT_PUBLIC_FIREBASE_API_KEY,
             authDomain |-> e.NEXT_PUBLIC_FIREBASE_AUTH_DOMAIN,
             storageBucket |-> e.NEXT_PUBLIC_FIREBASE_STORAGE_BUCKET,
             messagingSenderId |-> e.NEXT_PUBLIC_FIREBASE_MESSAGING_SENDER_ID,
             appId |-> e.NEXT_PUBLIC_FIREBASE_APP_ID,
             emulators |-> JUndef]
        emu == loadEmulatorConfig(cfg, f, node)
    IN  IF getEnvironment(e) = "development"
        THEN [value |-> [config EXCEPT !.emulators = emu.value], log |-> emu.log]
        ELSE [value |-> config, log |-> <<>>]

\* returns [value, log]
loadFirebaseConfig(e, cfg, f, node) ==
    LET config ==
            [projectId |-> JsOr(JsOr(e.NEXT_PUBLIC_FIREBASE_PROJECT_ID,
                                     e.FIREBASE_PROJECT_ID),
                                JStr("demo-project")),
             apiKey |-> e.NEXT_PUBLIC_FIREBASE_API_KEY,
             authDomain |-> e.NEXT_PUBLIC_FIREBASE_AUTH_DOMAIN,
             storageBucket |-> e.NEXT_PUBLIC_FIREBASE_STORAGE_BUCKET,
             messagingSenderId |-> e.NEXT_PUBLIC_FIREBASE_MESSAGING_SENDER_ID,
             appId |-> e.NEXT_PUBLIC_FIREBASE_APP_ID,
             emulators |-> JUndef]
        emu == loadEmulatorConfig(cfg, f, node)
    IN  IF getEnvironment(e) = "development"
        THEN [value |-> [config EXCEPT !.emulators = emu.value], log |-> emu.log]
        ELSE [value |-> config, log |-> <<>>]

\* getApiBaseUrl with the emulator test placed before the override test
getApiBaseUrlEmulatorFirst(e, cfg) ==
    IF Truthy(cfg.firebase.emulators)
    THEN [threw |-> FALSE, value |-> cfg.firebase.emulators.functions.baseUrl,
          error |-> JUndef]
    ELSE IF Truthy(e.NEXT_PUBLIC_API_URL)
    THEN [threw |-> FALSE, value |-> e.NEXT_PUBLIC_API_URL, error |-> JUndef]
    ELSE IF Truthy(e.NEXT_PUBLIC_FIREBASE_FUNCTIONS_URL)
    THEN [threw |-> FALSE, value |-> e.NEXT_PUBLIC_FIREBASE_FUNCTIONS_URL,
          error |-> JUndef]
    ELSE [threw |-> TRUE, value |-> JUndef,
          error |-> ConfigurationError(
              JStr("API base URL not configured"),
              JStr("No NEXT_PUBLIC_API_URL or Firebase Functions URL found"),
              JStr("Set NEXT_PUBLIC_API_URL in .env.local or ensure Firebase emulators are configured"))]

\* getApiBaseUrl ending in a fallback to the empty string instead of a throw
getApiBaseUrlEmptyFallback(e, cfg) ==
    IF Truthy(e.NEXT_PUBLIC_API_URL)
    THEN [threw |-> FALSE, value |-> e.NEXT_PUBLIC_API_URL, error |-> JUndef]
    ELSE IF Truthy(cfg.firebase.emulators)
    THEN [threw |-> FALSE, value |-> cfg.firebase.emulators.functions.baseUrl,
          error |-> JUndef]
    ELSE IF Truthy(e.NEXT_PUBLIC_FIREBASE_FUNCTIONS_URL)
    THEN [threw |-> FALSE, value |-> e.NEXT_PUBLIC_FIREBASE_FUNCTIONS_URL,
          error |-> JUndef]
    ELSE [threw |-> FALSE, value |-> JStr(""), error |-> JUndef]

\* returns [threw, value, error]
getApiBaseUrl(e, cfg) ==
    IF Truthy(e.NEXT_PUBLIC_API_URL)
    THEN [threw |-> FALSE, value |-> e.NEXT_PUBLIC_API_URL, error |-> JUndef]
    ELSE IF Truthy(cfg.firebase.emulators)
    THEN [threw |-> FALSE, value |-> cfg.firebase.emulators.functions.baseUrl,
          error |-> JUndef]
    ELSE IF Truthy(e.NEXT_PUBLIC_FIREBASE_FUNCTIONS_URL)
    THEN [threw |-> FALSE, value |-> e.NEXT_PUBLIC_FIREBASE_FUNCTIONS_URL,
          error |-> JUndef]
    ELSE [threw |-> TRUE, value |-> JUndef,
          error |-> ConfigurationError(
              JStr("API base URL not configured"),
              JStr("No NEXT_PUBLIC_API_URL or Firebase Functions URL found"),
              JStr("Set NEXT_PUBLIC_API_URL in .env.local or ensure Firebase emulators are configured"))]

\* validate with the authDomain test nested inside the apiKey test
validateNestedDomainTest(cfg) ==
    LET e1 == IF ~Truthy(cfg.firebase.projectId)
              THEN <<"Firebase projectId is required">> ELSE <<>>
        e2 == IF cfg.environment = "development" /\ ~Truthy(cfg.firebase.emulators)
              THEN <<"Emulator configuration missing in development mode">> ELSE <<>>
        e3 == IF cfg.environment = "production" /\ ~Truthy(cfg.firebase.apiKey)
              THEN <<"Firebase apiKey required for production">> ELSE <<>>
        e4 == IF /\ cfg.environment = "production"
                 /\ ~Truthy(cfg.firebase.apiKey)
                 /\ ~Truthy(cfg.firebase.authDomain)
              THEN <<"Firebase authDomain required for production">> ELSE <<>>
        errors == e1 \o e2 \o e3 \o e4
    IN  [valid |-> Len(errors) = 0,
         errors |-> IF Len(errors) > 0 THEN JArr(errors) ELSE JUndef]

\* validate returning the error array even when it is empty
validateErrorsAlways(cfg) ==
    LET e1 == IF ~Truthy(cfg.firebase.projectId)
              THEN <<"Firebase projectId is required">> ELSE <<>>
        e2 == IF cfg.environment = "development" /\ ~Truthy(cfg.firebase.emulators)
              THEN <<"Emulator configuration missing in development mode">> ELSE <<>>
        e3 == IF cfg.environment = "production" /\ ~Truthy(cfg.firebase.apiKey)
              THEN <<"Firebase apiKey required for production">> ELSE <<>>
        e4 == IF cfg.environment = "production" /\ ~Truthy(cfg.firebase.authDomain)
              THEN <<"Firebase authDomain required for production">> ELSE <<>>
        errors == e1 \o e2 \o e3 \o e4
    IN  [valid |-> Len(errors) = 0, errors |-> JArr(errors)]

validate(cfg) ==
    LET e1 == IF ~Truthy(cfg.firebase.projectId)
              THEN <<"Firebase projectId is required">> ELSE <<>>
        e2 == IF cfg.environment = "development" /\ ~Truthy(cfg.firebase.emulators)
              THEN <<"Emulator configuration missing in development mode">> ELSE <<>>
        e3 == IF cfg.environment = "production" /\ ~Truthy(cfg.firebase.apiKey)
              THEN <<"Firebase apiKey required for production">> ELSE <<>>
        e4 == IF cfg.environment = "production" /\ ~Truthy(cfg.firebase.authDomain)
              THEN <<"Firebase authDomain required for production">> ELSE <<>>
        errors == e1 \o e2 \o e3 \o e4
    IN  [valid |-> Len(errors) = 0,
         errors |-> IF Len(errors) > 0 THEN JArr(errors) ELSE JUndef]

getFirebaseConfig(cfg) == cfg.firebase

getEmulatorConfig(cfg) == JsOr(cfg.firebase.emulators, JNull)

getApiUrl(cfg) == cfg.api.baseUrl

\* isEmulatorMode as "anything but production"
isEmulatorModeNotProduction(cfg) == cfg.environment # "production"

isEmulatorMode(cfg) ==
    cfg.environment = "development" /\ Truthy(cfg.firebase.emulators)

isProduction(cfg) == cfg.environment = "production"

BoolStr(b) == IF b THEN "true" ELSE "false"

logConfiguration(cfg) ==
    <<"[ConfigService] Configuration Summary:",
      "  Environment: " \o cfg.environment,
      "  Project ID: " \o ToStr(cfg.firebase.projectId),
      "  Emulator Mode: " \o BoolStr(isEmulatorMode(cfg)),
      "  API Base URL: " \o ToStr(cfg.api.baseUrl)>>
    \o (IF isEmulatorMode(cfg) /\ Truthy(cfg.firebase.emulators)
        THEN <<"  Emulator Endpoints:",
               "    Auth: " \o ToStr(cfg.firebase.emulators.auth.url),
               "    Firestore: http://" \o ToStr(cfg.firebase.emulators.firestore.host)
                   \o ":" \o ToStr(cfg.firebase.emulators.firestore.port),
               "    Functions: " \o ToStr(cfg.firebase.emulators.functions.baseUrl)>>
        ELSE <<>>)

\* a constructor that validates before it resolves the API base URL
ConstructorValidatesFirst(e, f, node) ==
    LET start == <<"[ConfigService] Initializing configuration...">>
        fb == loadFirebaseConfig(e, JUndef, f, node)
        cfg0 == [environment |-> getEnvironment(e),
                 firebase |-> fb.value,
                 api |-> [baseUrl |-> JStr("")]]
        validation == validate(cfg0)
        url == getApiBaseUrl(e, cfg0)
        cfg1 == [cfg0 EXCEPT !.api.baseUrl = url.value]
    IN  IF ~validation.valid
        THEN [threw |-> TRUE,
              error |-> ConfigurationError(
                  JStr("Configuration validation failed"),
                  JStr(Join(validation.errors.items, "\n")),
                  JStr("Check your .env.local file and ensure Firebase emulators are running")),
              config |-> cfg0,
              console |-> start \o fb.log]
        ELSE IF url.threw
        THEN [threw |-> TRUE, error |-> url.error, config |-> cfg0,
              console |-> start \o fb.log]
        ELSE [threw |-> FALSE, error |-> JUndef, config |-> cfg1,
              console |-> start \o fb.log
                          \o <<"[ConfigService] Configuration loaded successfully">>
                          \o logConfiguration(cfg1)]

\* a constructor that logs the success summary before it validates
ConstructorLogsBeforeValidating(e, f, node) ==
    LET start == <<"[ConfigService] Initializing configuration...">>
        fb == loadFirebaseConfig(e, JUndef, f, node)
        cfg0 == [environment |-> getEnvironment(e),
                 firebase |-> fb.value,
                 api |-> [baseUrl |-> JStr("")]]
        url == getApiBaseUrl(e, cfg0)
        cfg1 == [cfg0 EXCEPT !.api.baseUrl = url.value]
        validation == validate(cfg1)
        summary == <<"[ConfigService] Configuration loaded successfully">>
                   \o logConfiguration(cfg1)
    IN  IF url.threw
        THEN [threw |-> TRUE, error |-> url.error, config |-> cfg0,
              console |-> start \o fb.log]
        ELSE IF ~validation.valid
        THEN [threw |-> TRUE,
              error |-> ConfigurationError(
                  JStr("Configuration validation failed"),
                  JStr(Join(validation.errors.items, "\n")),
                  JStr("Check your .env.local file and ensure Firebase emulators are running")),
              config |-> cfg1,
              console |-> start \o fb.log \o summary]
        ELSE [threw |-> FALSE, error |-> JUndef, config |-> cfg1,
              console |-> start \o fb.log \o summary]

\* new ConfigService(): returns [threw, error, config, console]
Constructor(e, f, node) ==
    LET start == <<"[ConfigService] Initializing configuration...">>
        \* this.config is still unassigned while the object literal is evaluated
        fb == loadFirebaseConfig(e, JUndef, f, node)
        cfg0 == [environment |-> getEnvironment(e),
                 firebase |-> fb.value,
                 api |-> [baseUrl |-> JStr("")]]
        url == getApiBaseUrl(e, cfg0)
        cfg1 == [cfg0 EXCEPT !.api.baseUrl = url.value]
        validation == validate(cfg1)
    IN  IF url.threw
        THEN [threw |-> TRUE, error |-> url.error, config |-> cfg0,
              console |-> start \o fb.log]
        ELSE IF ~validation.valid
        THEN [threw |-> TRUE,
              error |-> ConfigurationError(
                  JStr("Configuration validation failed"),
                  JStr(Join(validation.errors.items, "\n")),
                  JStr("Check your .env.local file and ensure Firebase emulators are running")),
              config |-> cfg1,
              console |-> start \o fb.log]
        ELSE [threw |-> FALSE, error |-> JUndef, config |-> cfg1,
              console |-> start \o fb.log
                          \o <<"[ConfigService] Configuration loaded successfully">>
                          \o logConfiguration(cfg1)]

-----------------------------------------------------------------------------
(* The ambient signals: the values each input is drawn from *)

EnvVars ==
    {"NEXT_PUBLIC_APP_ENV", "NODE_ENV",
     "NEXT_PUBLIC_FIREBASE_PROJECT_ID", "FIREBASE_PROJECT_ID",
     "NEXT_PUBLIC_FIREBASE_API_KEY", "NEXT_PUBLIC_FIREBASE_AUTH_DOMAIN",
     "NEXT_PUBLIC_FIREBASE_STORAGE_BUCKET",
     "NEXT_PUBLIC_FIREBASE_MESSAGING_SENDER_ID", "NEXT_PUBLIC_FIREBASE_APP_ID",
     "NEXT_PUBLIC_API_URL", "NEXT_PUBLIC_FIREBASE_FUNCTIONS_URL"}

\* every value a variable takes in the model (an unset variable reads undefined)
EnvValues ==
    [NEXT_PUBLIC_APP_ENV |-> {JUndef, JStr("production"), JStr("staging")},
     NODE_ENV |-> {JUndef, JStr("production"), JStr("test")},
     NEXT_PUBLIC_FIREBASE_PROJECT_ID |-> {JUndef, JStr(""), JStr("my-app")},
     FIREBASE_PROJECT_ID |-> {JUndef, JStr("my-app-admin")},
     NEXT_PUBLIC_FIREBASE_API_KEY |-> {JUndef, JStr(""), JStr("AIzaSyExample")},
     NEXT_PUBLIC_FIREBASE_AUTH_DOMAIN |-> {JUndef, JStr("my-app.firebaseapp.com")},
     NEXT_PUBLIC_FIREBASE_STORAGE_BUCKET |-> {JUndef, JStr("my-app.appspot.com")},
     NEXT_PUBLIC_FIREBASE_MESSAGING_SENDER_ID |-> {JUndef, JStr("1234567890")},
     NEXT_PUBLIC_FIREBASE_APP_ID |-> {JUndef, JStr("1:1234567890:web:abc")},
     NEXT_PUBLIC_API_URL |-> {JUndef, JStr(""), JStr("https://api.example.com")},
     NEXT_PUBLIC_FIREBASE_FUNCTIONS_URL |->
         {JUndef, JStr(""), JStr("https://us-central1-my-app.cloudfunctions.net")}]

\* every variable unset
Unset == [v \in EnvVars |-> {JUndef}]

\* the environments whose variables take their values in d[variable]
Envs(d) ==
    [NEXT_PUBLIC_APP_ENV : d.NEXT_PUBLIC_APP_ENV,
     NODE_ENV : d.NODE_ENV,
     NEXT_PUBLIC_FIREBASE_PROJECT_ID : d.NEXT_PUBLIC_FIREBASE_PROJECT_ID,
     FIREBASE_PROJECT_ID : d.FIREBASE_PROJECT_ID,
     NEXT_PUBLIC_FIREBASE_API_KEY : d.NEXT_PUBLIC_FIREBASE_API_KEY,
     NEXT_PUBLIC_FIREBASE_AUTH_DOMAIN : d.NEXT_PUBLIC_FIREBASE_AUTH_DOMAIN,
     NEXT_PUBLIC_FIREBASE_STORAGE_BUCKET : d.NEXT_PUBLIC_FIREBASE_STORAGE_BUCKET,
     NEXT_PUBLIC_FIREBASE_MESSAGING_SENDER_ID : d.NEXT_PUBLIC_FIREBASE_MESSAGING_SENDER_ID,
     NEXT_PUBLIC_FIREBASE_APP_ID : d.NEXT_PUBLIC_FIREBASE_APP_ID,
     NEXT_PUBLIC_API_URL : d.NEXT_PUBLIC_API_URL,
     NEXT_PUBLIC_FIREBASE_FUNCTIONS_URL : d.NEXT_PUBLIC_FIREBASE_FUNCTIONS_URL]

Services == {"auth", "firestore", "functions", "storage", "hosting"}

\* a service's entry in the emulators section: none, one without a port,
\* port 0, or a port of its own
CustomPort ==
    [auth |-> 9098, firestore |-> 9000, functions |-> 5002,
     storage |-> 9198, hosting |-> 5050]

ServiceEntries(svc) ==
    {JUndef, [port |-> JUndef], [port |-> JNum(0)], [port |-> JNum(CustomPort[svc])]}

EmulatorSections ==
    [auth : ServiceEntries("auth"), firestore : ServiceEntries("firestore"),
     functions : ServiceEntries("functions"), storage : ServiceEntries("storage"),
     hosting : ServiceEntries("hosting")]

OnDisk(state, json) == [state |-> state, json |-> json]

\* firebase.json absent, unreadable, not JSON, or JSON that is not a usable object
UnusableFiles ==
    {OnDisk("absent", JUndef), OnDisk("unreadable", JUndef),
     OnDisk("malformed", JUndef), OnDisk("parsed", JNull),
     OnDisk("parsed", JNum(42)),
     OnDisk("parsed", [emulators |-> JUndef]),
     OnDisk("parsed", [emulators |-> JNum(1)])}

AllFiles ==
    UnusableFiles \cup {OnDisk("parsed", [emulators |-> em]) : em \in EmulatorSections}

\* the emulators section with only the given service -> port pairs
Section(ports) ==
    [svc \in Services |->
        IF svc \in DOMAIN ports THEN [port |-> JNum(ports[svc])] ELSE JUndef]

\* the files the lifecycle specification switches between
FewFiles ==
    {OnDisk("absent", JUndef), OnDisk("malformed", JUndef),
     OnDisk("parsed", [emulators |-> JUndef]),
     OnDisk("parsed", [emulators |-> Section([firestore |-> 9000])]),
     OnDisk("parsed", [emulators |-> Section([functions |-> 5002, auth |-> 9098])])}

-----------------------------------------------------------------------------
(* The static members of ConfigService, and the changes around them *)

NoCall == [kind |-> "none"]
Returned(v) == [kind |-> "returned", value |-> v]
Threw(err) == [kind |-> "threw", error |-> err]

\* no script is running
NoScript == [name |-> "none"]

InitOver(envs, files) ==
    /\ env \in envs
    /\ firebaseJson \in files
    /\ isNode \in BOOLEAN
    /\ instance = JNull
    /\ objects = 0
    /\ result = NoCall
    /\ console = <<>>
    /\ discarded = JNull
    /\ changes = 0
    /\ script = NoScript
    /\ localhost = <<>>
    /\ disk = <<>>
    /\ procs = <<>>

\* getInstance() without the cache test: every call constructs
GetInstanceNoCache ==
    /\ objects < MaxObjects
    /\ LET c == Constructor(env, firebaseJson, isNode)
           self == [id |-> objects + 1, config |-> c.config]
       IN  /\ objects' = objects + 1
           /\ console' = c.console
           /\ IF c.threw
              THEN /\ instance' = instance
                   /\ result' = Threw(c.error)
              ELSE /\ instance' = self
                   /\ result' = Returned(self)
    /\ UNCHANGED <<env, firebaseJson, isNode, discarded, changes,
                   script, localhost, disk, procs>>

\* getInstance() with the singleton assigned before the constructor has
\* finished: a throwing construction leaves the object behind
GetInstanceCommitsFirst ==
    IF ~Truthy(instance)
    THEN /\ objects < MaxObjects
         /\ LET c == Constructor(env, firebaseJson, isNode)
                self == [id |-> objects + 1, config |-> c.config]
            IN  /\ objects' = objects + 1
                /\ console' = c.console
                /\ instance' = self
                /\ result' = IF c.threw THEN Threw(c.error) ELSE Returned(self)
         /\ UNCHANGED <<env, firebaseJson, isNode, discarded, changes,
                   script, localhost, disk, procs>>
    ELSE /\ result' = Returned(instance)
         /\ console' = <<>>
         /\ UNCHANGED <<env, firebaseJson, isNode, instance, objects, discarded,
                        changes,
                   script, localhost, disk, procs>>

\* ConfigService.getInstance()
GetInstance ==
    IF ~Truthy(instance)
    THEN /\ objects < MaxObjects
         /\ LET c == Constructor(env, firebaseJson, isNode)
                self == [id |-> objects + 1, config |-> c.config]
            IN  /\ objects' = objects + 1
                /\ console' = c.console
                /\ IF c.threw
                   THEN /\ instance' = instance
                        /\ result' = Threw(c.error)
                   ELSE /\ instance' = self
                        /\ result' = Returned(self)
         /\ UNCHANGED <<env, firebaseJson, isNode, discarded, changes,
                   script, localhost, disk, procs>>
    ELSE /\ result' = Returned(instance)
         /\ console' = <<>>
         /\ UNCHANGED <<env, firebaseJson, isNode, instance, objects, discarded,
                        changes,
                   script, localhost, disk, procs>>

\* resetInstance() that forgets to clear the singleton
ResetInstanceKeeps ==
    /\ result' = Returned(JUndef)
    /\ console' = <<>>
    /\ UNCHANGED <<env, firebaseJson, isNode, instance, objects, discarded, changes,
                   script, localhost, disk, procs>>

\* ConfigService.resetInstance()
ResetInstance ==
    /\ instance' = JNull
    /\ discarded' = IF Truthy(instance) THEN instance ELSE discarded
    /\ result' = Returned(JUndef)
    /\ console' = <<>>
    /\ UNCHANGED <<env, firebaseJson, isNode, objects, changes,
                   script, localhost, disk, procs>>

\* the surroundings set or unset an environment variable between two calls
SetEnv ==
    /\ changes < MaxChanges
    /\ \E v \in EnvVars : \E val \in EnvValues[v] :
        /\ val # env[v]
        /\ env' = [env EXCEPT ![v] = val]
    /\ changes' = changes + 1
    /\ UNCHANGED <<firebaseJson, isNode, instance, objects, result, console,
                   discarded,
                   script, localhost, disk, procs>>

\* the surroundings write, break or delete firebase.json between two calls
WriteFirebaseJson ==
    /\ changes < MaxChanges
    /\ \E f \in FewFiles :
        /\ f # firebaseJson
        /\ firebaseJson' = f
    /\ changes' = changes + 1
    /\ UNCHANGED <<env, isNode, instance, objects, result, console, discarded,
                   script, localhost, disk, procs>>

-----------------------------------------------------------------------------
(* Specifications *)

\* Lifecycle: the process starts with its credentials set, in any of the
\* three environments, with or without a production functions URL and with
\* no firebase.json; calls interleave with changes of the ambient signals.
LifecycleEnvs ==
    Envs([Unset EXCEPT
        !.NEXT_PUBLIC_APP_ENV = {JUndef, JStr("production"), JStr("staging")},
        !.NEXT_PUBLIC_FIREBASE_API_KEY = {JStr("AIzaSyExample")},
        !.NEXT_PUBLIC_FIREBASE_AUTH_DOMAIN = {JStr("my-app.firebaseapp.com")},
        !.NEXT_PUBLIC_FIREBASE_FUNCTIONS_URL =
            {JUndef, JStr("https://us-central1-my-app.cloudfunctions.net")}])

Init == InitOver(LifecycleEnvs, {OnDisk("absent", JUndef)})

Next == GetInstance \/ ResetInstance \/ SetEnv \/ WriteFirebaseJson

Spec == Init /\ [][Next]_vars

\* the outcome of self.validate()
Validated(self, v) == [kind |-> "validated", self |-> self, value |-> v]

\* validate() that first refreshes the cached environment
ValidateRefreshesEnvironment ==
    /\ Truthy(instance)
    /\ LET cfg == [instance.config EXCEPT !.environment = getEnvironment(env)]
       IN  /\ instance' = [instance EXCEPT !.config = cfg]
           /\ result' = Validated(instance', validate(cfg))
    /\ console' = <<>>
    /\ UNCHANGED <<env, firebaseJson, isNode, objects, discarded, changes,
                   script, localhost, disk, procs>>

\* a holder of a ConfigService object, the cached one or one that was reset
\* away, calls validate() on it
Validate ==
    /\ \E self \in {instance, discarded} :
        /\ Truthy(self)
        /\ result' = Validated(self, validate(self.config))
    /\ console' = <<>>
    /\ UNCHANGED <<env, firebaseJson, isNode, instance, objects, discarded,
                   changes,
                   script, localhost, disk, procs>>

\* Lifecycle with introspection: as Spec, with validate() among the calls.
NextValidate == Next \/ Validate

SpecValidate == Init /\ [][NextValidate]_vars

\* Resolution over the environment: every combination of the variables that
\* decide the environment, the identity, the credentials and the API URL.
ResolveEnvs ==
    Envs([EnvValues EXCEPT
        !.NEXT_PUBLIC_FIREBASE_STORAGE_BUCKET = {JUndef},
        !.NEXT_PUBLIC_FIREBASE_MESSAGING_SENDER_ID = {JUndef},
        !.NEXT_PUBLIC_FIREBASE_APP_ID = {JUndef}])

InitEnv ==
    InitOver(ResolveEnvs,
             {OnDisk("absent", JUndef), OnDisk("malformed", JUndef),
              OnDisk("parsed", [emulators |-> JUndef]),
              OnDisk("parsed", [emulators |->
                  [Section([functions |-> 5002]) EXCEPT !.auth = [port |-> JUndef]]])})

NextCalls == GetInstance \/ ResetInstance

SpecEnv == InitEnv /\ [][NextCalls]_vars

\* Resolution over firebase.json: every state of the file, in a development
\* and a production environment, with and without a project id.
FileEnvs ==
    Envs([Unset EXCEPT
        !.NEXT_PUBLIC_APP_ENV = {JUndef, JStr("production")},
        !.NEXT_PUBLIC_FIREBASE_PROJECT_ID = {JUndef, JStr("my-app")},
        !.NEXT_PUBLIC_FIREBASE_FUNCTIONS_URL =
            {JStr("https://us-central1-my-app.cloudfunctions.net")}])

InitFile == InitOver(FileEnvs, AllFiles)

SpecFile == InitFile /\ [][NextCalls]_vars

\* Resolution over the type of the port values: in development, every
\* emulators section whose services have no entry, an integer port or a
\* port written as a string.
StringPortEntries(svc) ==
    {JUndef, [port |-> JNum(CustomPort[svc])],
     [port |-> JStr(ToString(CustomPort[svc]))]}

StringPortSections ==
    [auth : StringPortEntries("auth"), firestore : StringPortEntries("firestore"),
     functions : StringPortEntries("functions"),
     storage : StringPortEntries("storage"),
     hosting : StringPortEntries("hosting")]

InitPortValues ==
    InitOver(Envs(Unset),
             {OnDisk("parsed", [emulators |-> em]) : em \in StringPortSections})

SpecPortValues == InitPortValues /\ [][NextCalls]_vars

\* Resolution over the mode and identity signals: every combination of the
\* two environment-mode variables and the two project-id variables (unset,
\* empty, set), with and without the API key.
SignalEnvs ==
    Envs([Unset EXCEPT
        !.NEXT_PUBLIC_APP_ENV =
            {JUndef, JStr(""), JStr("production"), JStr("staging"), JStr("test")},
        !.NODE_ENV =
            {JUndef, JStr("production"), JStr("staging"), JStr("development"),
             JStr("test")},
        !.NEXT_PUBLIC_FIREBASE_PROJECT_ID = {JUndef, JStr(""), JStr("my-app")},
        !.FIREBASE_PROJECT_ID = {JUndef, JStr(""), JStr("my-app-admin")},
        !.NEXT_PUBLIC_FIREBASE_API_KEY = {JUndef, JStr("AIzaSyExample")},
        !.NEXT_PUBLIC_FIREBASE_AUTH_DOMAIN = {JStr("my-app.firebaseapp.com")},
        !.NEXT_PUBLIC_FIREBASE_FUNCTIONS_URL =
            {JStr("https://us-central1-my-app.cloudfunctions.net")}])

InitSignals == InitOver(SignalEnvs, {OnDisk("absent", JUndef)})

SpecSignals == InitSignals /\ [][NextCalls]_vars

\* Resolution over everything at once: every combination of the variables
\* that decide the environment, the identity, the credentials and the API
\* URL, with every kind of firebase.json: absent, unreadable, unparseable,
\* without an emulators section, partial, complete, with ports of 0 and
\* ports written as strings.
AllEnvs ==
    Envs([EnvValues EXCEPT
        !.NEXT_PUBLIC_APP_ENV =
            {JUndef, JStr("production"), JStr("staging"), JStr("test")},
        !.NEXT_PUBLIC_FIREBASE_STORAGE_BUCKET = {JUndef},
        !.NEXT_PUBLIC_FIREBASE_MESSAGING_SENDER_ID = {JUndef},
        !.NEXT_PUBLIC_FIREBASE_APP_ID = {JUndef}])

FileKinds ==
    UnusableFiles \cup
    {OnDisk("parsed", [emulators |-> Section([functions |-> 5002])]),
     OnDisk("parsed", [emulators |-> Section(CustomPort)]),
     OnDisk("parsed", [emulators |-> [svc \in Services |-> [port |-> JNum(0)]]]),
     OnDisk("parsed", [emulators |->
         [svc \in Services |-> [port |-> JStr(ToString(CustomPort[svc]))]]])}

InitAll == InitOver(AllEnvs, FileKinds)

SpecAll == InitAll /\ [][NextCalls]_vars

-----------------------------------------------------------------------------
(* The scripts: e2e-health, e2e-stop, e2e-start and setup.  Each runs in a *)
(* process of its own, in which ConfigService is never loaded.             *)

ConfigNotLoaded ==
    /\ env = [v \in EnvVars |-> JUndef]
    /\ firebaseJson = OnDisk("absent", JUndef)
    /\ isNode = TRUE
    /\ instance = JNull
    /\ objects = 0
    /\ result = NoCall
    /\ console = <<>>
    /\ discarded = JNull
    /\ changes = 0

\* what a GET / on a port of localhost meets: a response (of any status),
\* a connection error, or silence until the request times out
PortStates == {"response", "refused", "silent"}

(* e2e-health *)

HEALTH_CHECKS ==
    << [name |-> "Next.js Dev Server", port |-> 3004, required |-> TRUE],
       [name |-> "Firebase Auth", port |-> 9099, required |-> TRUE],
       [name |-> "Firebase Firestore", port |-> 8081, required |-> TRUE],
       [name |-> "Firebase Functions", port |-> 5002, required |-> TRUE],
       [name |-> "Firebase Storage", port |-> 9199, required |-> FALSE],
       [name |-> "Firebase Hosting", port |-> 5000, required |-> FALSE] >>

\* the promise of checkService resolves on 'response', 'error' or 'timeout'
checkService(net, port) ==
    IF net[port] = "response"
    THEN [healthy |-> TRUE, error |-> JUndef]
    ELSE IF net[port] = "refused"
    THEN [healthy |-> FALSE, error |-> JStr("connect ECONNREFUSED")]
    ELSE [healthy |-> FALSE, error |-> JStr("Connection timeout")]

\* the loop body counting every failed probe, optional services included
HealthCheckAllRequired ==
    /\ script.name = "e2e-health"
    /\ script.pc = "checking"
    /\ Len(script.results) < Len(HEALTH_CHECKS)
    /\ LET check == HEALTH_CHECKS[Len(script.results) + 1]
           probe == checkService(localhost, check.port)
       IN  script' = [script EXCEPT
               !.results = Append(@, [name |-> check.name, port |-> check.port,
                                      required |-> check.required,
                                      healthy |-> probe.healthy,
                                      error |-> probe.error,
                                      passed |-> probe.healthy]),
               !.hasFailures = @ \/ ~probe.healthy]
    /\ UNCHANGED <<localhost, disk, procs>>
    /\ UNCHANGED configVars

\* main: one turn of the loop over HEALTH_CHECKS
HealthCheck ==
    /\ script.name = "e2e-health"
    /\ script.pc = "checking"
    /\ Len(script.results) < Len(HEALTH_CHECKS)
    /\ LET check == HEALTH_CHECKS[Len(script.results) + 1]
           probe == checkService(localhost, check.port)
       IN  script' = [script EXCEPT
               !.results = Append(@, [name |-> check.name, port |-> check.port,
                                      required |-> check.required,
                                      healthy |-> probe.healthy,
                                      error |-> probe.error,
                                      passed |-> probe.healthy \/ ~check.required]),
               !.hasFailures = @ \/ (~probe.healthy /\ check.required)]
    /\ UNCHANGED <<localhost, disk, procs>>
    /\ UNCHANGED configVars

\* the names printed for a list of results
Names(results) == [i \in 1..Len(results) |-> results[i].name]

\* main: the summary after the loop, and process.exit
HealthSummary ==
    /\ script.name = "e2e-health"
    /\ script.pc = "checking"
    /\ Len(script.results) = Len(HEALTH_CHECKS)
    /\ LET NotResponding(r) == ~r.passed /\ r.required
           Healthy(r) == r.healthy
       IN  script' = [script EXCEPT
               !.pc = "exited",
               !.out = IF script.hasFailures
                       THEN Names(SelectSeq(script.results, NotResponding))
                       ELSE Names(SelectSeq(script.results, Healthy)),
               !.exitCode = IF script.hasFailures THEN JNum(1) ELSE JNum(0)]
    /\ UNCHANGED <<localhost, disk, procs>>
    /\ UNCHANGED configVars

\* the ports of the health checks and the documented emulator ports
HealthPorts == {3004, 9099, 8080, 8081, 5001, 5002, 9199, 5000}

InitHealth ==
    /\ ConfigNotLoaded
    /\ script = [name |-> "e2e-health", pc |-> "checking", results |-> <<>>,
                 hasFailures |-> FALSE, out |-> <<>>, exitCode |-> JUndef]
    /\ localhost \in [HealthPorts -> PortStates]
    /\ disk = <<>>
    /\ procs = <<>>

NextHealth == HealthCheck \/ HealthSummary

SpecHealth == InitHealth /\ [][NextHealth]_vars

(* e2e-stop *)

\* a path that names nothing, a file that cannot be read, a file with text
Missing == [state |-> "missing"]

Unreadable == [state |-> "unreadable"]

File(text) == [state |-> "file", text |-> text]

\* fs.unlinkSync
Unlink(d, f) == [d EXCEPT ![f] = Missing]

PID_FILES == [nextjs |-> ".e2e-nextjs.pid", emulators |-> ".e2e-emulators.pid"]

\* what a PID file may hold
PidTexts == {"4242", "5151\n", "77xyz", "abc", ""}

\* String.prototype.trim
Trim(text) == IF text = "5151\n" THEN "5151" ELSE text

NaN == [type |-> "NaN"]

isNaN(v) == v = NaN

\* parseInt: the leading digits of the text, NaN when there are none
parseInt(text) ==
    CASE text = "4242" -> JNum(4242)
      [] text = "5151" -> JNum(5151)
      [] text = "77xyz" -> JNum(77)
      [] OTHER -> NaN

\* the processes a PID file may name: running, gone, or not ours to signal
Pids == {4242, 5151, 77}

ProcStates == {"running", "gone", "protected"}

\* stopServiceByPidFile that leaves the PID file behind when the kill failed
StopServiceByPidFileKeepsOnFailure ==
    /\ script.name = "e2e-stop"
    /\ script.pc = "call"
    /\ script.queue # <<>>
    /\ LET svc == Head(script.queue)
           f == PID_FILES[svc]
           found == disk[f]
           pid == IF found.state = "file" THEN parseInt(Trim(found.text)) ELSE NaN
           Return(stopped) ==
               [script EXCEPT !.queue = Tail(@),
                              !.returned = Append(@, [service |-> svc,
                                                      found |-> found,
                                                      stopped |-> stopped])]
           Kill(signal) ==
               [service |-> svc, pid |-> pid.num, signal |-> signal]
       IN  IF found.state = "missing"
           THEN /\ script' = Return(TRUE)
                /\ UNCHANGED <<disk, procs>>
           ELSE IF found.state = "unreadable"
           THEN /\ script' = Return(FALSE)
                /\ disk' = Unlink(disk, f)
                /\ UNCHANGED procs
           ELSE IF isNaN(pid)
           THEN /\ script' = Return(TRUE)
                /\ disk' = Unlink(disk, f)
                /\ UNCHANGED procs
           ELSE IF script.isWindows
           THEN /\ procs' = IF procs[pid.num] = "running"
                            THEN [procs EXCEPT ![pid.num] = "gone"] ELSE procs
                /\ script' = [Return(procs[pid.num] \in {"running", "gone"})
                                 EXCEPT !.kills = Append(@, Kill("taskkill"))]
                /\ disk' = IF procs[pid.num] = "protected"
                           THEN disk ELSE Unlink(disk, f)
           ELSE IF procs[pid.num] = "running"
           THEN /\ procs' = [procs EXCEPT ![pid.num] = "signalled"]
                /\ script' = [script EXCEPT !.pc = "wait", !.pid = pid.num,
                                            !.found = found,
                                            !.kills = Append(@, Kill("SIGTERM"))]
                /\ UNCHANGED disk
           ELSE /\ script' = [Return(FALSE)
                                 EXCEPT !.kills = Append(@, Kill("SIGTERM"))]
                /\ disk' = disk
                /\ UNCHANGED procs
    /\ UNCHANGED localhost
    /\ UNCHANGED configVars

\* stopServiceByPidFile, with killProcess up to its first await: on Windows
\* the whole taskkill, elsewhere the SIGTERM to the process group
StopServiceByPidFile ==
    /\ script.name = "e2e-stop"
    /\ script.pc = "call"
    /\ script.queue # <<>>
    /\ LET svc == Head(script.queue)
           f == PID_FILES[svc]
           found == disk[f]
           pid == IF found.state = "file" THEN parseInt(Trim(found.text)) ELSE NaN
           Return(stopped) ==
               [script EXCEPT !.queue = Tail(@),
                              !.returned = Append(@, [service |-> svc,
                                                      found |-> found,
                                                      stopped |-> stopped])]
           Kill(signal) ==
               [service |-> svc, pid |-> pid.num, signal |-> signal]
       IN  IF found.state = "missing"
           THEN /\ script' = Return(TRUE)
                /\ UNCHANGED <<disk, procs>>
           ELSE IF found.state = "unreadable"
           THEN /\ script' = Return(FALSE)
                /\ disk' = Unlink(disk, f)
                /\ UNCHANGED procs
           ELSE IF isNaN(pid)
           THEN /\ script' = Return(TRUE)
                /\ disk' = Unlink(disk, f)
                /\ UNCHANGED procs
           ELSE IF script.isWindows
           THEN /\ procs' = IF procs[pid.num] = "running"
                            THEN [procs EXCEPT ![pid.num] = "gone"] ELSE procs
                /\ script' = [Return(procs[pid.num] \in {"running", "gone"})
                                 EXCEPT !.kills = Append(@, Kill("taskkill"))]
                /\ disk' = IF procs[pid.num] = "protected"
                           THEN Unlink(disk, f) ELSE Unlink(disk, f)
           ELSE IF procs[pid.num] = "running"
           THEN /\ procs' = [procs EXCEPT ![pid.num] = "signalled"]
                /\ script' = [script EXCEPT !.pc = "wait", !.pid = pid.num,
                                            !.found = found,
                                            !.kills = Append(@, Kill("SIGTERM"))]
                /\ UNCHANGED disk
           ELSE /\ script' = [Return(FALSE)
                                 EXCEPT !.kills = Append(@, Kill("SIGTERM"))]
                /\ disk' = Unlink(disk, f)
                /\ UNCHANGED procs
    /\ UNCHANGED localhost
    /\ UNCHANGED configVars

\* while killProcess waits its two seconds: the signalled process exits
ProcessExits ==
    /\ script.name = "e2e-stop"
    /\ script.pc = "wait"
    /\ procs[script.pid] = "signalled"
    /\ procs' = [procs EXCEPT ![script.pid] = "gone"]
    /\ UNCHANGED <<script, localhost, disk>>
    /\ UNCHANGED configVars

\* while killProcess waits its two seconds: someone else removes the PID file
PidFileRemoved ==
    /\ script.name = "e2e-stop"
    /\ script.pc = "wait"
    /\ disk[PID_FILES[Head(script.queue)]] # Missing
    /\ disk' = Unlink(disk, PID_FILES[Head(script.queue)])
    /\ UNCHANGED <<script, localhost, procs>>
    /\ UNCHANGED configVars

\* killProcess after the wait (SIGKILL, its error ignored), and the rest of
\* stopServiceByPidFile
KillProcessAfterWait ==
    /\ script.name = "e2e-stop"
    /\ script.pc = "wait"
    /\ LET svc == Head(script.queue)
           f == PID_FILES[svc]
       IN  /\ procs' = [procs EXCEPT ![script.pid] = "gone"]
           /\ script' = [script EXCEPT
                  !.pc = "call",
                  !.queue = Tail(@),
                  !.kills = Append(@, [service |-> svc, pid |-> script.pid,
                                       signal |-> "SIGKILL"]),
                  !.returned = Append(@, [service |-> svc,
                                          found |-> script.found,
                                          stopped |-> TRUE])]
           /\ disk' = IF disk[f] # Missing THEN Unlink(disk, f) ELSE disk
    /\ UNCHANGED localhost
    /\ UNCHANGED configVars

\* main after both stopServiceByPidFile calls: firebase emulators:kill, the
\* port cleanup on Windows, the closing banner
StopRest ==
    /\ script.name = "e2e-stop"
    /\ script.pc = "call"
    /\ script.queue = <<>>
    /\ script' = [script EXCEPT !.pc = "done"]
    /\ UNCHANGED <<localhost, disk, procs>>
    /\ UNCHANGED configVars

InitStop ==
    /\ ConfigNotLoaded
    /\ \E w \in BOOLEAN :
           script = [name |-> "e2e-stop", pc |-> "call", isWindows |-> w,
                     queue |-> <<"nextjs", "emulators">>, pid |-> 0,
                     found |-> Missing, kills |-> <<>>, returned |-> <<>>]
    /\ localhost = <<>>
    /\ disk \in [{PID_FILES.nextjs, PID_FILES.emulators} ->
                    {Missing, Unreadable} \cup {File(t) : t \in PidTexts}]
    /\ procs \in [Pids -> ProcStates]

NextStop ==
    \/ StopServiceByPidFile
    \/ ProcessExits
    \/ PidFileRemoved
    \/ KillProcessAfterWait
    \/ StopRest

SpecStop == InitStop /\ [][NextStop]_vars

(* setup *)

MaxRuns == 2

\* process.version of the node that runs the script
NodeVersions == {"v16.20.2", "v18.0.0", "v20.11.1"}

\* parseInt(currentVersion.slice(1).split('.')[0])
versionNumber(currentVersion) ==
    CASE currentVersion = "v16.20.2" -> 16
      [] currentVersion = "v18.0.0" -> 18
      [] currentVersion = "v20.11.1" -> 20

\* the paths setup tests, and the directory it copies into
SetupPaths ==
    [rootNodeModules |-> "node_modules",
     webNodeModules |-> "apps/web/node_modules",
     envExample |-> "apps/web/.env.local.example",
     envLocal |-> "apps/web/.env.local",
     healthScript |-> "scripts/e2e-health.js",
     webDir |-> "apps/web"]

Dir == [state |-> "dir"]

ReadOnlyDir == [state |-> "readonly"]

existsSync(d, f) == d[f] # Missing

\* one more result of a check: its return value, and its entry in
\* failedChecks when it returned false
Checked(s, ok, message, next) ==
    [s EXCEPT !.pc = next,
              !.checks = Append(@, ok),
              !.failedChecks = IF ok THEN @ ELSE Append(@, message)]

\* step 1: checkNodeVersion
SetupCheckNodeVersion ==
    /\ script.name = "setup"
    /\ script.pc = "node"
    /\ script' = Checked(script, versionNumber(script.version) >= 18,
                         "Node.js version requirement not met", "cli")
    /\ UNCHANGED <<localhost, disk, procs>>
    /\ UNCHANGED configVars

\* step 2: checkFirebaseCli
SetupCheckFirebaseCli ==
    /\ script.name = "setup"
    /\ script.pc = "cli"
    /\ script' = Checked(script, procs.firebase = "installed",
                         "Firebase CLI not installed", "deps")
    /\ UNCHANGED <<localhost, disk, procs>>
    /\ UNCHANGED configVars

\* step 3: checkDependencies
SetupCheckDependencies ==
    /\ script.name = "setup"
    /\ script.pc = "deps"
    /\ LET rootExists == existsSync(disk, SetupPaths.rootNodeModules)
           webExists == existsSync(disk, SetupPaths.webNodeModules)
       IN  IF rootExists /\ webExists
           THEN /\ script' = Checked(script, TRUE, "", "env")
                /\ UNCHANGED disk
           ELSE IF procs.npmInstall = "works"
           THEN /\ script' = Checked(script, TRUE, "", "env")
                /\ disk' = [disk EXCEPT ![SetupPaths.rootNodeModules] = Dir,
                                        ![SetupPaths.webNodeModules] = Dir]
           ELSE /\ script' = Checked(script, FALSE,
                                     "Failed to install npm dependencies", "env")
                /\ UNCHANGED disk
    /\ UNCHANGED <<localhost, procs>>
    /\ UNCHANGED configVars

\* step 4: setupEnvironmentFile
SetupEnvironmentFile ==
    /\ script.name = "setup"
    /\ script.pc = "env"
    /\ IF ~existsSync(disk, SetupPaths.envExample)
       THEN /\ script' = Checked(script, FALSE, "Failed to create .env.local", "health")
            /\ UNCHANGED disk
       ELSE IF existsSync(disk, SetupPaths.envLocal)
       THEN /\ script' = Checked(script, TRUE, "", "health")
            /\ UNCHANGED disk
       ELSE IF disk[SetupPaths.webDir] = Dir
       THEN /\ script' = Checked(script, TRUE, "", "health")
            /\ disk' = [disk EXCEPT ![SetupPaths.envLocal] = disk[SetupPaths.envExample]]
       ELSE /\ script' = Checked(script, FALSE, "Failed to create .env.local", "health")
            /\ UNCHANGED disk
    /\ UNCHANGED <<localhost, procs>>
    /\ UNCHANGED configVars

\* step 5: runHealthCheck resolves true whatever the child did
SetupRunHealthCheck ==
    /\ script.name = "setup"
    /\ script.pc = "health"
    /\ script' = [script EXCEPT
           !.pc = "exit",
           !.health = IF ~existsSync(disk, SetupPaths.healthScript)
                      THEN "not found"
                      ELSE procs.health]
    /\ UNCHANGED <<localhost, disk, procs>>
    /\ UNCHANGED configVars

\* main's ending with an exit code that follows the health check too
SetupExitHealthCounts ==
    /\ script.name = "setup"
    /\ script.pc = "exit"
    /\ script' = [script EXCEPT
           !.pc = "exited",
           !.exitCode = IF Len(script.failedChecks) = 0 /\ script.health = "exit 0"
                        THEN JNum(0) ELSE JNum(1)]
    /\ UNCHANGED <<localhost, disk, procs>>
    /\ UNCHANGED configVars

\* main: display results and process.exit
SetupExit ==
    /\ script.name = "setup"
    /\ script.pc = "exit"
    /\ script' = [script EXCEPT
           !.pc = "exited",
           !.exitCode = IF Len(script.failedChecks) = 0 THEN JNum(0) ELSE JNum(1)]
    /\ UNCHANGED <<localhost, disk, procs>>
    /\ UNCHANGED configVars

\* a fresh setup process: main's locals at its first line
SetupStart(version, run) ==
    [name |-> "setup", pc |-> "node", version |-> version, run |-> run,
     checks |-> <<>>, failedChecks |-> <<>>, health |-> "not run",
     exitCode |-> JUndef]

\* npm run setup once more, on the tree the last run left
SetupAgain ==
    /\ script.name = "setup"
    /\ script.pc = "exited"
    /\ script.run < MaxRuns
    /\ script' = SetupStart(script.version, script.run + 1)
    /\ UNCHANGED <<localhost, disk, procs>>
    /\ UNCHANGED configVars

InitSetup ==
    /\ ConfigNotLoaded
    /\ \E v \in NodeVersions : script = SetupStart(v, 1)
    /\ localhost = <<>>
    /\ \E tree \in [rootNodeModules : {Missing, Dir},
                    webNodeModules : {Missing, Dir},
                    envExample : {Missing, File("NEXT_PUBLIC_FIREBASE_API_KEY=")},
                    envLocal : {Missing, File("NEXT_PUBLIC_FIREBASE_API_KEY=AIzaSyExample")},
                    healthScript : {Missing, File("e2e-health")},
                    webDir : {Dir, ReadOnlyDir}] :
           disk = [f \in {SetupPaths[k] : k \in DOMAIN SetupPaths} |->
                      tree[CHOOSE k \in DOMAIN SetupPaths : SetupPaths[k] = f]]
    /\ procs \in [firebase : {"installed", "not installed"},
                  npmInstall : {"works", "fails"},
                  health : {"exit 0", "exit 1", "spawn error"}]

NextSetup ==
    \/ SetupCheckNodeVersion
    \/ SetupCheckFirebaseCli
    \/ SetupCheckDependencies
    \/ SetupEnvironmentFile
    \/ SetupRunHealthCheck
    \/ SetupExit
    \/ SetupAgain

SpecSetup == InitSetup /\ [][NextSetup]_vars

(* e2e-start *)

MaxAttempts == 3

SERVICES ==
    [emulators |->
        [name |-> "Firebase Emulators",
         healthChecks |-> << [name |-> "Auth", port |-> 9099],
                             [name |-> "Firestore", port |-> 8081],
                             [name |-> "Functions", port |-> 5002] >>,
         pidFile |-> ".e2e-emulators.pid"],
     nextjs |->
        [name |-> "Next.js Dev Server",
         healthChecks |-> << [name |-> "Next.js", port |-> 3004] >>,
         pidFile |-> ".e2e-nextjs.pid"]]

\* the ports of all the health checks of SERVICES
StartPorts ==
    UNION {{SERVICES[s].healthChecks[i].port :
                i \in 1..Len(SERVICES[s].healthChecks)} : s \in DOMAIN SERVICES}

\* the promise of isServiceRunning resolves true on a response, false on
\* 'error' and on 'timeout'
isServiceRunning(net, port) == net[port] = "response"

\* waitForService that never gives up
WaitForServiceLoopForever ==
    /\ script.name = "waitForService"
    /\ script.pc = "loop"
    /\ LET isRunning == isServiceRunning(localhost, script.port)
       IN  script' = [script EXCEPT
               !.pc = IF isRunning THEN "returned" ELSE "sleep",
               !.returned = IF isRunning THEN JNum(1) ELSE @,
               !.outcomes = IF Len(@) < MaxAttempts + 2
                            THEN Append(@, isRunning) ELSE @]
    /\ UNCHANGED <<localhost, disk, procs>>
    /\ UNCHANGED configVars

\* waitForService: the loop test and, when it passes, one probe
WaitForServiceLoop ==
    /\ script.name = "waitForService"
    /\ script.pc = "loop"
    /\ IF script.attempt <= script.maxAttempts
       THEN LET isRunning == isServiceRunning(localhost, script.port)
            IN  script' = [script EXCEPT
                    !.pc = IF isRunning THEN "returned" ELSE "sleep",
                    !.returned = IF isRunning THEN JNum(1) ELSE @,
                    !.outcomes = Append(@, isRunning)]
       ELSE script' = [script EXCEPT !.pc = "returned", !.returned = JNum(0)]
    /\ UNCHANGED <<localhost, disk, procs>>
    /\ UNCHANGED configVars

\* waitForService: the interval has passed, attempt++
WaitForServiceSleep ==
    /\ script.name = "waitForService"
    /\ script.pc = "sleep"
    /\ script' = [script EXCEPT !.pc = "loop", !.attempt = @ + 1]
    /\ UNCHANGED <<localhost, disk, procs>>
    /\ UNCHANGED configVars

\* during the interval the service comes up, goes down or stops answering
ServiceChanges ==
    /\ script.name = "waitForService"
    /\ script.pc = "sleep"
    /\ \E s \in PortStates \ {localhost[script.port]} :
           localhost' = [localhost EXCEPT ![script.port] = s]
    /\ UNCHANGED <<script, disk, procs>>
    /\ UNCHANGED configVars

InitWait ==
    /\ ConfigNotLoaded
    /\ \E m \in 0..MaxAttempts, url \in StartPorts :
           script = [name |-> "waitForService", pc |-> "loop", port |-> url,
                     maxAttempts |-> m, attempt |-> 1, outcomes |-> <<>>,
                     returned |-> JUndef]
    /\ \E s \in PortStates : localhost = [p \in StartPorts |-> s]
    /\ disk = <<>>
    /\ procs = <<>>

NextWait == WaitForServiceLoop \/ WaitForServiceSleep \/ ServiceChanges

\* the event loop runs every timer that expires and every request to its
\* response, error or timeout
SpecWait ==
    /\ InitWait
    /\ [][NextWait]_vars
    /\ WF_vars(WaitForServiceLoop \/ WaitForServiceSleep)

\* the pid spawn gives the child of each service
SpawnPid == [emulators |-> 6001, nextjs |-> 6002]

\* cleanup, for one entry of runningProcesses: taskkill on Windows, SIGTERM
\* to the process group elsewhere, which throws when the group is gone; the
\* PID file is removed after a signal that did not throw
cleanupOne(st, svc) ==
    LET pid == SpawnPid[svc]
        pidFile == SERVICES[svc].pidFile
        threw == ~st.script.isWindows /\ st.procs[pid] # "running"
    IN  [script |-> [st.script EXCEPT
                        !.kills = Append(@, [service |-> svc, pid |-> pid,
                                             threw |-> threw])],
         procs |-> IF st.procs[pid] = "running"
                   THEN [st.procs EXCEPT ![pid] = "signalled"] ELSE st.procs,
         disk |-> IF ~threw /\ existsSync(st.disk, pidFile)
                  THEN Unlink(st.disk, pidFile) ELSE st.disk]

\* cleanup: runningProcesses.forEach
RECURSIVE cleanupFrom(_, _)
cleanupFrom(st, rest) ==
    IF rest = <<>> THEN st
    ELSE cleanupFrom(cleanupOne(st, Head(rest)), Tail(rest))

cleanup(s, d, p) ==
    cleanupFrom([script |-> s, disk |-> d, procs |-> p], s.runningProcesses)

\* startService returned true: main goes on to the next service, or prints
\* the 'E2E Environment Ready' banner after the last
Advance(s) ==
    [s EXCEPT !.queue = Tail(@),
              !.pc = IF Tail(s.queue) = <<>> THEN "ready" ELSE "start"]

\* startService up to its health checks: the probe of the first health
\* check, and, when nothing answers, spawn, the PID file and the push
StartService ==
    /\ script.name = "e2e-start"
    /\ script.pc = "start"
    /\ LET svc == Head(script.queue)
           healthChecks == SERVICES[svc].healthChecks
           firstHealthCheck == healthChecks[1]
           pid == SpawnPid[svc]
       IN  IF isServiceRunning(localhost, firstHealthCheck.port)
           THEN /\ script' = Advance([script EXCEPT
                                 !.passed = @ \cup {firstHealthCheck.name},
                                 !.alreadyRunning = @ \cup {svc}])
                /\ UNCHANGED <<disk, procs>>
           ELSE \E spawned \in BOOLEAN :
                IF spawned
                THEN /\ procs' = [procs EXCEPT ![pid] = "running"]
                     /\ disk' = [disk EXCEPT ![SERVICES[svc].pidFile] =
                                                 File(ToString(pid))]
                     /\ script' = [script EXCEPT
                            !.pc = "health",
                            !.check = 1,
                            !.runningProcesses = Append(@, svc)]
                ELSE LET after == cleanup(script, disk, procs)
                     IN  /\ script' = [after.script EXCEPT !.pc = "exited",
                                                          !.exitCode = JNum(1)]
                         /\ disk' = after.disk
                         /\ procs' = after.procs
    /\ UNCHANGED localhost
    /\ UNCHANGED configVars

\* startService: waitForService on the next health check, which returns
\* true once the port responds and false after maxAttempts failed probes
StartHealthCheck ==
    /\ script.name = "e2e-start"
    /\ script.pc = "health"
    /\ LET svc == Head(script.queue)
           healthChecks == SERVICES[svc].healthChecks
           healthCheck == healthChecks[script.check]
           ready == isServiceRunning(localhost, healthCheck.port)
       IN  IF ready
           THEN /\ script' =
                       IF script.check < Len(healthChecks)
                       THEN [script EXCEPT !.check = @ + 1,
                                           !.passed = @ \cup {healthCheck.name}]
                       ELSE Advance([script EXCEPT
                                        !.passed = @ \cup {healthCheck.name}])
                /\ UNCHANGED <<disk, procs>>
           ELSE LET after == cleanup(script, disk, procs)
                IN  /\ script' = [after.script EXCEPT !.pc = "exited",
                                                     !.exitCode = JNum(1)]
                    /\ disk' = after.disk
                    /\ procs' = after.procs
    /\ UNCHANGED localhost
    /\ UNCHANGED configVars

\* the handlers of SIGINT and SIGTERM: cleanup and process.exit(0)
StartSignalled ==
    /\ script.name = "e2e-start"
    /\ script.pc # "exited"
    /\ \E signal \in {"SIGINT", "SIGTERM"} :
        LET after == cleanup(script, disk, procs)
        IN  /\ script' = [after.script EXCEPT !.pc = "exited",
                                             !.exitCode = JNum(0),
                                             !.signal = signal]
            /\ disk' = after.disk
            /\ procs' = after.procs
    /\ UNCHANGED localhost
    /\ UNCHANGED configVars

\* a child this run spawned brings up one of its ports
ServiceComesUp ==
    /\ script.name = "e2e-start"
    /\ script.pc = "health"
    /\ \E i \in 1..Len(script.runningProcesses) :
        LET svc == script.runningProcesses[i]
        IN  /\ procs[SpawnPid[svc]] = "running"
            /\ \E k \in 1..Len(SERVICES[svc].healthChecks) :
                LET port == SERVICES[svc].healthChecks[k].port
                IN  /\ localhost[port] # "response"
                    /\ localhost' = [localhost EXCEPT ![port] = "response"]
    /\ UNCHANGED <<script, disk, procs>>
    /\ UNCHANGED configVars

\* a child this run spawned exits by itself
SpawnedProcessExits ==
    /\ script.name = "e2e-start"
    /\ script.pc # "exited"
    /\ \E pid \in DOMAIN procs :
        /\ procs[pid] = "running"
        /\ procs' = [procs EXCEPT ![pid] = "gone"]
    /\ UNCHANGED <<script, localhost, disk>>
    /\ UNCHANGED configVars

InitStart ==
    /\ ConfigNotLoaded
    /\ \E w \in BOOLEAN :
           script = [name |-> "e2e-start", pc |-> "start", isWindows |-> w,
                     queue |-> <<"emulators", "nextjs">>, check |-> 0,
                     runningProcesses |-> <<>>, alreadyRunning |-> {},
                     passed |-> {}, kills |-> <<>>, signal |-> "",
                     exitCode |-> JUndef]
    /\ localhost \in [StartPorts -> PortStates]
    /\ disk \in [{SERVICES[s].pidFile : s \in DOMAIN SERVICES} ->
                    {Missing, File("4242")}]
    /\ procs = [pid \in {SpawnPid[s] : s \in DOMAIN SERVICES} |-> "not spawned"]

NextStart ==
    \/ StartService
    \/ StartHealthCheck
    \/ StartSignalled
    \/ ServiceComesUp
    \/ SpawnedProcessExits

SpecStart == InitStart /\ [][NextStart]_vars

-----------------------------------------------------------------------------
(* Properties *)

\* the latest call was getInstance() and it returned an object
GotObject == result.kind = "returned" /\ Truthy(result.value)

\* the step is a construction on the ambient signals as they are at the
\* call: the console receives the construction's lines and either the call
\* throws and no instance is cached, or the new object is cached and returned
FreshConstruction ==
    \E c \in {Constructor(env, firebaseJson, isNode)} :
        /\ console' = c.console
        /\ console' # <<>>
        /\ console'[1] = "[ConfigService] Initializing configuration..."
        /\ objects' = objects + 1
        /\ IF c.threw
           THEN result' = Threw(c.error) /\ instance' = JNull
           ELSE /\ result' = Returned(instance')
                /\ Truthy(instance')
                /\ instance'.id = objects'
                /\ instance'.config = c.config

\* C1: getInstance() is idempotent.  Two getInstance() calls with no
\* resetInstance() between them return the identical object, whatever the
\* environment is or has become, and a cached instance is never replaced by
\* another one: it only goes away through resetInstance().
C1_GetInstanceIdempotent ==
    [][/\ (GotObject /\ GotObject') => result'.value = result.value
       /\ GotObject' => result'.value = instance'
       /\ (Truthy(instance) /\ Truthy(instance')) => instance' = instance]_vars

\* C1 witness: a second getInstance() returned the cached object (it wrote
\* nothing) after the environment had changed
C1_Witness ==
    /\ GotObject
    /\ result.value = instance
    /\ console = <<>>
    /\ changes > 0

\* C2: a failed construction never leaves a cached instance.  While the
\* latest call is a getInstance() that threw, the singleton is unset, and
\* the call that follows it runs the whole resolution again on the ambient
\* signals as they are then.
C2_FailedConstructionNotCached ==
    [][/\ result'.kind = "threw" => instance' = JNull
       /\ (result.kind = "threw" /\ changes' = changes /\ result' # Returned(JUndef))
            => FreshConstruction]_vars

\* C2 witness: the first construction threw, the second one, after a change
\* of the ambient signals, committed object 2
C2_Witness ==
    /\ Truthy(instance)
    /\ instance.id = 2
    /\ discarded = JNull
    /\ result = Returned(instance)

\* C3: resetInstance() followed by getInstance() re-runs the full pipeline.
\* The call after a reset constructs on the ambient signals as they are at
\* that call and writes the construction-time lines again.
C3_ResetRerunsResolution ==
    [][(result = Returned(JUndef) /\ result' # result) => FreshConstruction]_vars

\* C3 witness: an instance was discarded and the one built after the reset
\* holds other settings than the discarded one
C3_Witness ==
    /\ Truthy(discarded)
    /\ Truthy(instance)
    /\ instance.id # discarded.id
    /\ instance.config # discarded.config
    /\ result = Returned(instance)
    /\ console # <<>>

\* C4: the environment is derived once and never recomputed.  On a cached
\* instance getEnvironment() returns the environment stored at construction,
\* also after NEXT_PUBLIC_APP_ENV or NODE_ENV have changed, and it agrees
\* with isProduction() and isEmulatorMode().
C4_EnvironmentNeverRecomputed ==
    Truthy(instance) =>
        /\ getEnvironment(env) = instance.config.environment
        /\ isProduction(instance.config) <=> getEnvironment(env) = "production"
        /\ isEmulatorMode(instance.config) => getEnvironment(env) = "development"

\* the functions URL the emulator configuration emu should carry for project p
FunctionsUrl(emu, p) ==
    JStr("http://localhost:" \o ToStr(emu.functions.port) \o "/" \o ToStr(p)
         \o "/us-central1")

\* C5: in development the functions URL is derived from the resolved
\* service identity.  emulators.functions.baseUrl is
\* http://localhost:<functions port>/<projectId>/us-central1 for the
\* projectId getFirebaseConfig() returns, and without NEXT_PUBLIC_API_URL
\* getApiUrl() is that URL.
C5_FunctionsUrlUsesProjectId ==
    (Truthy(instance) /\ isEmulatorMode(instance.config)) =>
        LET emu == getEmulatorConfig(instance.config)
            p == getFirebaseConfig(instance.config).projectId
        IN  /\ emu.functions.baseUrl = FunctionsUrl(emu, p)
            /\ ~Truthy(env.NEXT_PUBLIC_API_URL)
                   => getApiUrl(instance.config) = FunctionsUrl(emu, p)

\* C6: apiBaseUrl is chosen by strict priority.  On every instance
\* getApiUrl() is NEXT_PUBLIC_API_URL when that is non-empty; otherwise the
\* emulator functions baseUrl when local endpoints were resolved; otherwise
\* NEXT_PUBLIC_FIREBASE_FUNCTIONS_URL, which is then non-empty.
C6_ApiBaseUrlPriority ==
    Truthy(instance) =>
        LET emu == getEmulatorConfig(instance.config)
            url == getApiUrl(instance.config)
        IN  IF env.NEXT_PUBLIC_API_URL \notin {JUndef, JStr("")}
            THEN url = env.NEXT_PUBLIC_API_URL
            ELSE IF emu # JNull
            THEN url = emu.functions.baseUrl
            ELSE /\ url = env.NEXT_PUBLIC_FIREBASE_FUNCTIONS_URL
                 /\ url \notin {JUndef, JStr("")}

\* C6 witness: the lowest-priority source is used: the override is set but
\* empty, no local endpoints were resolved, the production URL is returned
C6_Witness ==
    /\ Truthy(instance)
    /\ env.NEXT_PUBLIC_API_URL = JStr("")
    /\ getEmulatorConfig(instance.config) = JNull
    /\ getApiUrl(instance.config) = env.NEXT_PUBLIC_FIREBASE_FUNCTIONS_URL

\* none of the three sources of the API base URL is present
NoApiUrlSource ==
    /\ env.NEXT_PUBLIC_API_URL \in {JUndef, JStr("")}
    /\ getEnvironment(env) # "development"
    /\ env.NEXT_PUBLIC_FIREBASE_FUNCTIONS_URL \in {JUndef, JStr("")}

\* C7: with no API-base-URL override, no local functions endpoint and no
\* production URL, getInstance() throws a ConfigurationError and returns no
\* object; no cached instance has an empty apiBaseUrl.
C7_NoApiUrlIsFatal ==
    /\ NoApiUrlSource =>
           /\ instance = JNull
           /\ ~GotObject
           /\ result.kind = "threw" =>
                  /\ result.error.name = "ConfigurationError"
                  /\ result.error.message = JStr("API base URL not configured")
    /\ Truthy(instance) =>
           /\ getApiUrl(instance.config).type = "string"
           /\ getApiUrl(instance.config) # JStr("")

\* C7 witness: getInstance() threw for the missing API base URL
C7_Witness ==
    /\ NoApiUrlSource
    /\ result.kind = "threw"
    /\ result.error.message = JStr("API base URL not configured")
    /\ instance = JNull

\* v is a non-empty string
NonEmptyString(v) == v # JUndef /\ v # JNull /\ v.type = "string" /\ v.str # ""

\* C8: getInstance() fails in exactly two cases.  It throws exactly when
\* the API base URL is unresolvable or a production credential is missing;
\* the error is a ConfigurationError with a message, a details string and a
\* resolution hint, the details of a validation failure being the
\* validation messages joined by newlines.  The state of firebase.json
\* never makes it throw.
C8_ExactlyTwoFatalCases ==
    LET production == getEnvironment(env) = "production"
        noKey == production /\ env.NEXT_PUBLIC_FIREBASE_API_KEY \in {JUndef, JStr("")}
        noDomain == production /\ env.NEXT_PUBLIC_FIREBASE_AUTH_DOMAIN \in {JUndef, JStr("")}
        keyMsg == "Firebase apiKey required for production"
        domainMsg == "Firebase authDomain required for production"
        details == IF noKey /\ noDomain THEN keyMsg \o "\n" \o domainMsg
                   ELSE IF noKey THEN keyMsg
                   ELSE domainMsg
    IN  /\ result.kind = "threw" =>
               /\ NoApiUrlSource \/ noKey \/ noDomain
               /\ result.error.name = "ConfigurationError"
               /\ NonEmptyString(result.error.message)
               /\ NonEmptyString(result.error.details)
               /\ NonEmptyString(result.error.resolution)
               /\ IF NoApiUrlSource
                  THEN result.error.message = JStr("API base URL not configured")
                  ELSE /\ result.error.message = JStr("Configuration validation failed")
                       /\ result.error.details = JStr(details)
        /\ GotObject => ~(NoApiUrlSource \/ noKey \/ noDomain)

\* C8 witness: a validation failure with two messages, joined by a newline
C8_Witness ==
    /\ result.kind = "threw"
    /\ result.error.message = JStr("Configuration validation failed")
    /\ result.error.details =
           JStr("Firebase apiKey required for production\nFirebase authDomain required for production")

\* the documented fixed default port of each service
DocumentedPort ==
    [auth |-> 9099, firestore |-> 8080, functions |-> 5001, storage |-> 9199,
     hosting |-> 5000]

\* firebase.json is absent, or present without an emulators section
NoEmulatorsSection ==
    \/ firebaseJson.state = "absent"
    \/ firebaseJson = OnDisk("parsed", [emulators |-> JUndef])

\* C9: in development with firebase.json absent or without an emulators
\* section, getEmulatorConfig() is non-null, every host is localhost and
\* every port is the service's fixed default.
C9_DefaultsWithoutEndpointsFile ==
    (Truthy(instance) /\ getEnvironment(env) = "development" /\ NoEmulatorsSection) =>
        LET emu == getEmulatorConfig(instance.config)
        IN  /\ emu # JNull
            /\ \A svc \in Services :
                   /\ emu[svc].host = JStr("localhost")
                   /\ emu[svc].port = JNum(DocumentedPort[svc])

\* C9 witness: an instance built in Node.js from a firebase.json that has no
\* emulators section
C9_Witness ==
    /\ Truthy(instance)
    /\ getEnvironment(env) = "development"
    /\ isNode
    /\ firebaseJson = OnDisk("parsed", [emulators |-> JUndef])
    /\ getEmulatorConfig(instance.config) # JNull

\* firebase.json was read and holds an emulators section with service entries
HasEmulatorsSection ==
    /\ isNode
    /\ firebaseJson.state = "parsed"
    /\ firebaseJson.json \notin {JNull, JNum(42)}
    /\ firebaseJson.json.emulators \notin {JUndef, JNum(1)}

\* the port the file gives the service (JUndef: none given)
FilePort(svc) == OptGet(firebaseJson.json.emulators[svc], "port")

\* the auth url and the functions baseUrl carry the port of their service
UrlsUseOwnPort(emu) ==
    /\ emu.auth.url = JStr("http://localhost:" \o ToStr(emu.auth.port))
    /\ \E p \in {JStr("demo-project"), instance.config.firebase.projectId} :
           emu.functions.baseUrl = FunctionsUrl(emu, p)

\* C10 as stated: port fallback is per service.  Each service given a port
\* in the file gets that port, each other service keeps its own default, and
\* the auth url and the functions baseUrl use the port of their service.
C10_PortFallbackPerService ==
    (Truthy(instance) /\ getEnvironment(env) = "development" /\ HasEmulatorsSection) =>
        LET emu == getEmulatorConfig(instance.config)
        IN  /\ emu # JNull
            /\ \A svc \in Services :
                   emu[svc].port = IF FilePort(svc) # JUndef THEN FilePort(svc)
                                   ELSE JNum(DocumentedPort[svc])
            /\ UrlsUseOwnPort(emu)

\* C10 amended: each service given a non-zero port in the file gets that
\* port; a service with no entry, no port or port 0 keeps its own default.
C10_NonZeroPortFallbackPerService ==
    (Truthy(instance) /\ getEnvironment(env) = "development" /\ HasEmulatorsSection) =>
        LET emu == getEmulatorConfig(instance.config)
        IN  /\ emu # JNull
            /\ \A svc \in Services :
                   emu[svc].port = IF FilePort(svc) \notin {JUndef, JNum(0)}
                                   THEN FilePort(svc)
                                   ELSE JNum(DocumentedPort[svc])
            /\ UrlsUseOwnPort(emu)

\* C10 witness: the file gives only firestore a port, 9000; firestore has it
\* and the other four services have their defaults
C10_Witness ==
    /\ Truthy(instance)
    /\ getEnvironment(env) = "development"
    /\ isNode
    /\ firebaseJson = OnDisk("parsed", [emulators |-> Section([firestore |-> 9000])])
    /\ getEmulatorConfig(instance.config).firestore.port = JNum(9000)
    /\ \A svc \in Services \ {"firestore"} :
           getEmulatorConfig(instance.config)[svc].port = JNum(DocumentedPort[svc])

\* C11: a non-integer port in the file is replaced by the default.  Every
\* port of getEmulatorConfig() is an integer, and a service whose port entry
\* is present but not an integer has its fixed default port.
C11_NonIntegerPortFallsBack ==
    (Truthy(instance) /\ getEnvironment(env) = "development" /\ HasEmulatorsSection) =>
        LET emu == getEmulatorConfig(instance.config)
        IN  \A svc \in Services :
                /\ emu[svc].port.type = "number"
                /\ (FilePort(svc) # JUndef /\ FilePort(svc).type # "number")
                       => emu[svc].port = JNum(DocumentedPort[svc])

\* firebase.json exists but cannot be read, cannot be parsed, or parses to
\* something that is not an object
UnloadableFile ==
    \/ firebaseJson.state \in {"unreadable", "malformed"}
    \/ firebaseJson.state = "parsed" /\ firebaseJson.json \in {JNull, JNum(42)}

\* C12: loading the local endpoints never raises.  In development with a
\* firebase.json that is unreadable, unparseable or not an object,
\* getInstance() does not throw and the emulator configuration is exactly
\* the built-in default one, the value obtained when the file is absent.
C12_UnloadableFileGivesDefaults ==
    (getEnvironment(env) = "development" /\ UnloadableFile) =>
        /\ result.kind # "threw"
        /\ Truthy(instance) =>
               LET emu == getEmulatorConfig(instance.config)
                   absent == loadEmulatorConfig(JUndef, OnDisk("absent", JUndef), isNode)
               IN  /\ emu # JNull
                   /\ emu = absent.value
                   /\ \A svc \in Services :
                          /\ emu[svc].host = JStr("localhost")
                          /\ emu[svc].port = JNum(DocumentedPort[svc])

\* C12 witness: an instance built in Node.js while firebase.json held text
\* that is not JSON
C12_Witness ==
    /\ Truthy(instance)
    /\ getEnvironment(env) = "development"
    /\ isNode
    /\ firebaseJson.state = "malformed"
    /\ result = Returned(instance)
    /\ getEmulatorConfig(instance.config).functions.port = JNum(5001)

\* the elements of a ValidationResult's errors (none when it is undefined)
ErrorsOf(v) ==
    IF v.errors = JUndef THEN {}
    ELSE {v.errors.items[i] : i \in 1..Len(v.errors.items)}

\* C13: in production validate() returns valid exactly when apiKey and
\* authDomain are both non-empty; with apiKey absent the errors hold the
\* apiKey message, with authDomain absent the authDomain message, and both
\* messages when both are absent.  Checked on the settings the constructor
\* assembles from the current signals, whether or not they get committed.
C13_ProductionValidation ==
    getEnvironment(env) = "production" =>
        \E c \in {Constructor(env, firebaseJson, isNode)} :
            LET v == validate(c.config)
                key == c.config.firebase.apiKey \notin {JUndef, JStr("")}
                domain == c.config.firebase.authDomain \notin {JUndef, JStr("")}
            IN  /\ c.config.environment = "production"
                /\ v.valid <=> (key /\ domain)
                /\ ~key <=> "Firebase apiKey required for production" \in ErrorsOf(v)
                /\ ~domain <=> "Firebase authDomain required for production" \in ErrorsOf(v)

\* C13 witness: a production construction was refused by validate() for the
\* missing authDomain alone
C13_Witness ==
    /\ getEnvironment(env) = "production"
    /\ env.NEXT_PUBLIC_FIREBASE_API_KEY = JStr("AIzaSyExample")
    /\ env.NEXT_PUBLIC_FIREBASE_AUTH_DOMAIN = JUndef
    /\ result.kind = "threw"
    /\ result.error.message = JStr("Configuration validation failed")
    /\ result.error.details = JStr("Firebase authDomain required for production")

\* C14: every cached instance satisfies the environment invariants.  In
\* production apiKey and authDomain are non-empty and getEmulatorConfig()
\* is null; in development getEmulatorConfig() is non-null; local endpoints
\* are present only in development.
C14_EnvironmentInvariants ==
    Truthy(instance) =>
        LET cfg == instance.config
            emu == getEmulatorConfig(cfg)
        IN  /\ cfg.environment \in {"development", "staging", "production"}
            /\ cfg.environment = "production" =>
                   /\ NonEmptyString(getFirebaseConfig(cfg).apiKey)
                   /\ NonEmptyString(getFirebaseConfig(cfg).authDomain)
                   /\ emu = JNull
            /\ cfg.environment = "development" => emu # JNull
            /\ emu # JNull => cfg.environment = "development"

\* C14 witness: a production instance is cached
C14_Witness ==
    /\ Truthy(instance)
    /\ instance.config.environment = "production"
    /\ getEmulatorConfig(instance.config) = JNull
    /\ result = Returned(instance)

\* the variable is set to a non-empty value
Present(v) == v \notin {JUndef, JStr("")}

ResolvedEndpoints(emu) ==
    /\ emu \notin {JUndef, JNull}
    /\ DOMAIN emu = Services

\* C16: isEmulatorMode() is true exactly when the cached environment is
\* development and the local endpoints were resolved; isEmulatorMode() and
\* isProduction() are never both true on a committed instance, and
\* getEmulatorConfig() is not null whenever isEmulatorMode() is true.
C16_EmulatorModePredicates ==
    Truthy(instance) =>
        LET cfg == instance.config
        IN  /\ isEmulatorMode(cfg) <=>
                   /\ cfg.environment = "development"
                   /\ ResolvedEndpoints(cfg.firebase.emulators)
            /\ ~(isEmulatorMode(cfg) /\ isProduction(cfg))
            /\ isEmulatorMode(cfg) => getEmulatorConfig(cfg) # JNull
            /\ isEmulatorMode(cfg) => getEmulatorConfig(cfg) = cfg.firebase.emulators

\* C16 witness: a committed development instance built from a readable
\* firebase.json reports emulator mode and hands out its endpoints
C16_Witness ==
    /\ Truthy(instance)
    /\ isEmulatorMode(instance.config)
    /\ ~isProduction(instance.config)
    /\ getEmulatorConfig(instance.config) # JNull
    /\ firebaseJson.state = "parsed"
    /\ isNode

\* C16 witness of the other side: a staging instance is neither in
\* emulator mode nor in production
C16_StagingNeither ==
    /\ Truthy(instance)
    /\ instance.config.environment = "staging"
    /\ ~isEmulatorMode(instance.config)
    /\ ~isProduction(instance.config)
    /\ getEmulatorConfig(instance.config) = JNull

\* C20: validate() on an instance returned by getInstance() is valid with
\* errors undefined; in every result, of the committed settings and of the
\* settings a construction under the current environment validates,
\* errors is undefined exactly when valid is true and a non-empty list
\* otherwise.
C20_ValidationResultShape ==
    /\ Truthy(instance) =>
           validate(instance.config) = [valid |-> TRUE, errors |-> JUndef]
    /\ \A c \in {Constructor(env, firebaseJson, isNode)} :
           LET v == validate(c.config)
           IN  /\ (v.errors = JUndef) <=> v.valid
               /\ ~v.valid => /\ v.errors.type = "array"
                              /\ Len(v.errors.items) > 0

\* C20 witness: a production instance was returned, and validate() on it
\* is valid
C20_Witness ==
    /\ GotObject
    /\ Truthy(instance)
    /\ instance.config.environment = "production"
    /\ validate(instance.config).valid

\* C20 witness of the failing side: the construction threw on two missing
\* production credentials
C20_TwoErrors ==
    /\ result.kind = "threw"
    /\ \E c \in {Constructor(env, firebaseJson, isNode)} :
           /\ ~validate(c.config).valid
           /\ Len(validate(c.config).errors.items) = 2

\* C18: the environment is resolved from NEXT_PUBLIC_APP_ENV when that is
\* set (non-empty), from NODE_ENV only when it is not, and is development
\* when neither is set; it is one of development, staging, production, and
\* every effective value other than 'production' and 'staging' gives
\* development.
C18_EnvironmentResolution ==
    Truthy(instance) =>
        LET override == env.NEXT_PUBLIC_APP_ENV
            mode == env.NODE_ENV
            effective == IF Present(override) THEN override ELSE mode
            resolved == instance.config.environment
        IN  /\ resolved \in {"development", "staging", "production"}
            /\ resolved = "production" <=> effective = JStr("production")
            /\ resolved = "staging" <=> effective = JStr("staging")
            /\ (~Present(override) /\ ~Present(mode)) => resolved = "development"
            /\ effective \notin {JStr("production"), JStr("staging")}
                   => resolved = "development"

\* C18 witness: the override 'test' wins over NODE_ENV=production and
\* resolves to development
C18_Witness ==
    /\ Truthy(instance)
    /\ env.NEXT_PUBLIC_APP_ENV = JStr("test")
    /\ env.NODE_ENV = JStr("production")
    /\ instance.config.environment = "development"

\* C18 witness of the fallback: with the override unset, NODE_ENV=staging
\* resolves to staging
C18_NodeEnvUsed ==
    /\ Truthy(instance)
    /\ env.NEXT_PUBLIC_APP_ENV = JUndef
    /\ env.NODE_ENV = JStr("staging")
    /\ instance.config.environment = "staging"

\* the lines of the success summary
SuccessLine == "[ConfigService] Configuration loaded successfully"

SummaryLine == "[ConfigService] Configuration Summary:"

HasLine(line, lines) == \E i \in 1..Len(lines) : lines[i] = line

\* C19: log lines are emitted only by a getInstance() that constructs: a
\* call that constructs nothing (a getInstance() returning the cached
\* object, a resetInstance()) emits none; the success line and the
\* configuration summary come out together, after the initializing line, of
\* a construction whose settings are valid and which returns the new
\* object, and never of a construction that throws.
C19_LoggingOnlyWhenConstructing ==
    [][changes' = changes =>
        /\ objects' = objects => console' = <<>>
        /\ (Truthy(instance) /\ result' = Returned(instance)) => console' = <<>>
        /\ objects' # objects =>
            /\ console' # <<>>
            /\ console'[1] = "[ConfigService] Initializing configuration..."
        /\ result'.kind = "threw" =>
            /\ ~HasLine(SuccessLine, console')
            /\ ~HasLine(SummaryLine, console')
        /\ (HasLine(SuccessLine, console') \/ HasLine(SummaryLine, console')) =>
            /\ objects' = objects + 1
            /\ result' = Returned(instance')
            /\ Truthy(instance')
            /\ validate(instance'.config).valid
            /\ \E i \in 2..(Len(console') - 1) :
                /\ console'[i] = SuccessLine
                /\ console'[i + 1] = SummaryLine
        /\ (objects' # objects /\ result'.kind = "returned") =>
            HasLine(SuccessLine, console')
    ]_vars

\* C19 witness: a construction threw after logging, and the success
\* summary is not among its lines
C19_Witness ==
    /\ result.kind = "threw"
    /\ Len(console) > 0
    /\ ~HasLine(SuccessLine, console)
    /\ result.error.message = JStr("Configuration validation failed")

\* C19 witness of the silent call: getInstance() has returned the cached
\* object, built by an earlier call, without a line
C19_CachedCallSilent ==
    /\ GotObject
    /\ result.value = instance
    /\ console = <<>>
    /\ objects > 0

\* C17: validate() never mutates state.  A validate() call leaves the
\* cached settings and the singleton reference (and every other variable
\* but the outcome of the call) as they were, its result is a function of
\* the settings of the object it is called on, and a later call on the same
\* object never returns a different result, whatever happened to the
\* environment in between.
C17_ValidateIsPure ==
    [][(result'.kind = "validated" /\ result' # result) =>
        /\ UNCHANGED <<env, firebaseJson, isNode, instance, objects, discarded,
                       changes>>
        /\ result'.self \in {instance, discarded}
        /\ result'.value = validate(result'.self.config)
        /\ (result.kind = "validated" /\ result.self.id = result'.self.id)
               => result'.value = result.value
    ]_vars

\* C17 witness: validate() was called on the cached instance after the
\* environment had moved away from the one the instance was built in, and
\* the instance is what it was
C17_Witness ==
    /\ result.kind = "validated"
    /\ result.self = instance
    /\ result.value.valid
    /\ changes > 0
    /\ getEnvironment(env) = "production"
    /\ instance.config.environment = "development"

\* e2e-health has exited
HealthExited == script.name = "e2e-health" /\ script.pc = "exited"

\* C21 as claimed: e2e-health exits 1 exactly when some of the six listed
\* services failed its probe (connection error or timeout), and 0 otherwise.
C21_ExitOneIffAnyProbeFailed ==
    HealthExited =>
        /\ script.exitCode \in {JNum(0), JNum(1)}
        /\ script.exitCode = JNum(1) <=>
               \E i \in 1..Len(HEALTH_CHECKS) :
                   localhost[HEALTH_CHECKS[i].port] # "response"

\* C21 amended: e2e-health exits 1 exactly when some required service (the
\* Next.js server, Auth, Firestore, Functions) failed its probe, and 0
\* otherwise; a failed probe of an optional service (Storage, Hosting)
\* leaves the exit code alone, and the failure list names exactly the
\* required services that failed.
C21_ExitOneIffRequiredProbeFailed ==
    HealthExited =>
        /\ Len(script.results) = Len(HEALTH_CHECKS)
        /\ script.exitCode \in {JNum(0), JNum(1)}
        /\ script.exitCode = JNum(1) <=>
               \E i \in 1..Len(HEALTH_CHECKS) :
                   /\ HEALTH_CHECKS[i].required
                   /\ localhost[HEALTH_CHECKS[i].port] # "response"
        /\ script.exitCode = JNum(1) =>
               \A i \in 1..Len(HEALTH_CHECKS) :
                   (\E j \in 1..Len(script.out) : script.out[j] = HEALTH_CHECKS[i].name)
                   <=> /\ HEALTH_CHECKS[i].required
                       /\ localhost[HEALTH_CHECKS[i].port] # "response"

\* C21 witness: the script exited 0 although Storage refused the
\* connection and Hosting timed out
C21_Witness ==
    /\ HealthExited
    /\ script.exitCode = JNum(0)
    /\ localhost[9199] = "refused"
    /\ localhost[5000] = "silent"

\* C21 witness of the failing side: exit 1 on a timeout of Firestore alone
C21_RequiredTimeout ==
    /\ HealthExited
    /\ script.exitCode = JNum(1)
    /\ script.out = <<"Firebase Firestore">>
    /\ localhost[8081] = "silent"

\* README "Development URLs" and SETUP "Running the Application": the ports
\* the services are documented to run on
DocumentedPorts ==
    [web |-> 3004, auth |-> 9099, firestore |-> 8080, functions |-> 5001,
     storage |-> 9199, hosting |-> 5000]

\* the port e2e-health probes for each service
ProbedPort ==
    [web |-> HEALTH_CHECKS[1].port, auth |-> HEALTH_CHECKS[2].port,
     firestore |-> HEALTH_CHECKS[3].port, functions |-> HEALTH_CHECKS[4].port,
     storage |-> HEALTH_CHECKS[5].port, hosting |-> HEALTH_CHECKS[6].port]

\* everything is up on its documented port, and nothing else answers
RunningAsDocumented ==
    \A p \in HealthPorts :
        localhost[p] = "response" <=> \E s \in DOMAIN DocumentedPorts : DocumentedPorts[s] = p

\* C22: with the Next.js server and the emulators up on their documented
\* ports, every required probe of e2e-health succeeds and the script exits
\* 0, and each emulator is probed on the port ConfigService resolves for it
\* by default.
C22_HealthAgreesWithDocumentedPorts ==
    (HealthExited /\ RunningAsDocumented) =>
        /\ script.exitCode = JNum(0)
        /\ \A i \in 1..Len(script.results) :
               script.results[i].required => script.results[i].healthy
        /\ \A svc \in Services :
               JNum(ProbedPort[svc]) = getDefaultEmulatorConfig(JUndef)[svc].port

\* the kills e2e-stop attempted for a service
KillsFor(svc) ==
    {i \in 1..Len(script.kills) : script.kills[i].service = svc}

\* the PID file named no process: it was missing or held no number
NamesNoProcess(found) ==
    \/ found = Missing
    \/ found.state = "file" /\ isNaN(parseInt(Trim(found.text)))

\* C26: once stopServiceByPidFile has returned for a service (PID file
\* missing, PID unparseable, process killed, process already gone, kill
\* failed, on either platform), the service's PID file does not exist, and
\* no kill was attempted for a service whose PID file was missing or held
\* no number; every kill that was attempted went to the process the file
\* named.
C26_StopRemovesPidFiles ==
    script.name = "e2e-stop" =>
        \A i \in 1..Len(script.returned) :
            LET r == script.returned[i]
            IN  /\ disk[PID_FILES[r.service]] = Missing
                /\ NamesNoProcess(r.found) => KillsFor(r.service) = {}
                /\ \A k \in KillsFor(r.service) :
                       /\ r.found.state = "file"
                       /\ JNum(script.kills[k].pid) = parseInt(Trim(r.found.text))

\* C26 witness: both calls have returned; Next.js had a PID file without a
\* number and was not signalled, the kill of the emulators failed, and both
\* PID files are gone
C26_Witness ==
    /\ script.name = "e2e-stop"
    /\ script.pc = "done"
    /\ Len(script.returned) = 2
    /\ script.returned[1].found = File("abc")
    /\ KillsFor("nextjs") = {}
    /\ script.returned[2].found = File("5151\n")
    /\ ~script.returned[2].stopped
    /\ KillsFor("emulators") # {}
    /\ \A f \in DOMAIN disk : disk[f] = Missing

\* C26 witness of the kill: the process group was sent SIGTERM and, two
\* seconds later, SIGKILL, and the PID file was removed afterwards
C26_KilledThenRemoved ==
    /\ script.name = "e2e-stop"
    /\ Len(script.returned) > 0
    /\ script.returned[1].stopped
    /\ Cardinality(KillsFor("nextjs")) = 2
    /\ disk[PID_FILES.nextjs] = Missing

\* setup has exited
SetupExited == script.name = "setup" /\ script.pc = "exited"

\* the failure-list entry of each of the four checks, in the order of main
SetupMessages ==
    <<"Node.js version requirement not met",
      "Firebase CLI not installed",
      "Failed to install npm dependencies",
      "Failed to create .env.local">>

\* the failure list main builds from the four return values
FailureList(checks) ==
    LET Entry(i) == IF checks[i] THEN <<>> ELSE <<SetupMessages[i]>>
    IN  Entry(1) \o Entry(2) \o Entry(3) \o Entry(4)

C23_HealthIgnored ==
    /\ SetupExited
    /\ script.checks = <<TRUE, TRUE, TRUE, TRUE>>
    /\ script.health = "exit 1"
    /\ script.exitCode = JNum(0)

\* C24: the environment-file step of setup is idempotent and
\* non-destructive.  Whenever .env.local exists when the step starts, the
\* step reports success and leaves the files as they are; .env.local is
\* written only when it was missing, and then as a copy of
\* .env.local.example.
C24_EnvironmentFileStepIdempotent ==
    [][(script.name = "setup" /\ script.pc = "env" /\ script'.pc = "health") =>
        /\ existsSync(disk, SetupPaths.envLocal) =>
               /\ script'.checks[Len(script'.checks)]
               /\ script'.failedChecks = script.failedChecks
               /\ disk' = disk
        /\ disk'[SetupPaths.envLocal] # disk[SetupPaths.envLocal] =>
               /\ disk[SetupPaths.envLocal] = Missing
               /\ disk'[SetupPaths.envLocal] = disk[SetupPaths.envExample]
    ]_vars

\* waitForService has returned
WaitReturned == script.name = "waitForService" /\ script.pc = "returned"

\* C29: waitForService always terminates.  It makes at most maxAttempts
\* probes; it returns true right after its first successful probe, which is
\* its last; it returns false after exactly maxAttempts probes that all
\* failed; every probe resolves to true or false, whatever the port does;
\* and every call returns in the end.
C29_WaitForServiceTerminates ==
    /\ [](script.name = "waitForService" =>
            /\ Len(script.outcomes) <= script.maxAttempts
            /\ \A i \in 1..Len(script.outcomes) : script.outcomes[i] \in BOOLEAN
            /\ \A i \in 1..(Len(script.outcomes) - 1) : ~script.outcomes[i]
            /\ script.pc # "returned" => script.returned = JUndef
            /\ WaitReturned =>
                /\ script.returned \in {JNum(0), JNum(1)}
                /\ script.returned = JNum(1) =>
                       /\ Len(script.outcomes) > 0
                       /\ script.outcomes[Len(script.outcomes)]
                /\ script.returned = JNum(0) =>
                       /\ Len(script.outcomes) = script.maxAttempts
                       /\ \A i \in 1..Len(script.outcomes) : ~script.outcomes[i])
    /\ <>WaitReturned

\* C29 witness: the service came up during the wait, and waitForService
\* returned true on its third probe, after a connection error and a timeout
C29_Witness ==
    /\ WaitReturned
    /\ script.returned = JNum(1)
    /\ script.outcomes = <<FALSE, FALSE, TRUE>>
    /\ script.maxAttempts = 3

\* C29 witness of giving up: false after maxAttempts failed probes
C29_GaveUp ==
    /\ WaitReturned
    /\ script.returned = JNum(0)
    /\ script.outcomes = <<FALSE, FALSE>>
    /\ script.maxAttempts = 2

\* every health check of the service gets a response
Responding(svc) ==
    \A i \in 1..Len(SERVICES[svc].healthChecks) :
        isServiceRunning(localhost, SERVICES[svc].healthChecks[i].port)

\* the services this run has spawned
Spawned == {script.runningProcesses[i] : i \in 1..Len(script.runningProcesses)}

\* C25: e2e-start prints 'E2E Environment Ready' only after every health
\* check of every service has passed (Auth, Firestore, Functions, Next.js),
\* and it spawns the Next.js dev server only after the three health checks
\* of the emulators have passed, whether the emulators were spawned by this
\* run or found already running.  No port stops responding in SpecStart, so
\* a health check that has passed is one whose port responds.
C25_ReadyOnlyAfterAllHealthChecks ==
    script.name = "e2e-start" =>
        /\ script.pc = "ready" =>
               \A svc \in DOMAIN SERVICES : Responding(svc)
        /\ "nextjs" \in Spawned => Responding("emulators")

\* C30: when e2e-start has exited on a failure or on SIGINT/SIGTERM, every
\* process this run spawned has been signalled and its PID file is gone; no
\* service found already running was signalled, spawned or given a PID
\* file.
C30_CleanupOnFailureOrSignal ==
    (script.name = "e2e-start" /\ script.pc = "exited") =>
        /\ \A svc \in Spawned :
               /\ \E k \in 1..Len(script.kills) : script.kills[k].service = svc
               /\ disk[SERVICES[svc].pidFile] = Missing
        /\ \A svc \in script.alreadyRunning :
               /\ svc \notin Spawned
               /\ procs[SpawnPid[svc]] = "not spawned"
               /\ disk[SERVICES[svc].pidFile] # File(ToString(SpawnPid[svc]))
               /\ \A k \in 1..Len(script.kills) : script.kills[k].service # svc

\* a credential production requires is missing
ProductionCredentialMissing ==
    /\ getEnvironment(env) = "production"
    /\ \/ ~Present(env.NEXT_PUBLIC_FIREBASE_API_KEY)
       \/ ~Present(env.NEXT_PUBLIC_FIREBASE_AUTH_DOMAIN)

\* C27: the resolution steps run in a fixed order.  validate() runs on
\* settings whose API base URL is resolved already: a construction that
\* fails in validation has a non-empty API base URL in the settings it
\* validated; and when the API base URL is unresolvable and a production
\* credential is missing too, getInstance() fails with the API-base-URL
\* error, which carries no validation message.
C27_ApiBaseUrlBeforeValidation ==
    /\ result.kind = "threw" =>
           \E c \in {Constructor(env, firebaseJson, isNode)} :
               /\ c.threw
               /\ c.error = result.error
               /\ c.error.message = JStr("Configuration validation failed")
                      => NonEmptyString(c.config.api.baseUrl)
               /\ c.error.message = JStr("API base URL not configured")
                      => c.config.api.baseUrl = JStr("")
    /\ (result.kind = "threw" /\ NoApiUrlSource /\ ProductionCredentialMissing) =>
           /\ result.error.message = JStr("API base URL not configured")
           /\ result.error.details =
                  JStr("No NEXT_PUBLIC_API_URL or Firebase Functions URL found")
           /\ instance = JNull

\* C27 witness: production without an API base URL and without an apiKey,
\* and getInstance() threw the API-base-URL error
C27_Witness ==
    /\ result.kind = "threw"
    /\ NoApiUrlSource
    /\ getEnvironment(env) = "production"
    /\ env.NEXT_PUBLIC_FIREBASE_API_KEY = JUndef
    /\ result.error.message = JStr("API base URL not configured")

====
